---- MODULE Spec2Model ----
(***************************************************************************)
(* Domain-availability checking subsystem of namer.ai:                     *)
(*   src/lib/rate-limit.ts                     sliding-window limiter      *)
(*   src/lib/gemini.ts (lines 100-295)         RDAP registry client        *)
(*   src/features/name-generator/services/domain-service.ts (372-664)      *)
(*                                             RDAP domain service         *)
(*   src/unnamed/part_006                      generation run              *)
(* Strings are sequences of code units (see Strings below).  Time is the   *)
(* value of Date.now(), an integer that only grows.                        *)
(***************************************************************************)
EXTENDS Integers, Sequences, FiniteSets, TLC

VARIABLES now, limitersState, admitted, calls, requestCount, lastError, lastFailure, call, run,
          expanded

vars == <<now, limitersState, admitted, calls, requestCount, lastError, lastFailure, call, run,
          expanded>>

---------------------------------------------------------------------------
(* Bounds of the model.  The service configures its limiter with           *)
(* {maxRequests: 60, windowMs: 60000} and a 300 ms delay; the model runs   *)
(* the same code under a small configuration so that quota exhaustion and  *)
(* window expiry both happen within MaxTime.                               *)

MaxTime == 4
MaxRequests == 2
WindowMs == 4
DelayMs == 1
MaxBatchLen == 11
MaxNames == 2
MaxCalls == 5
MaxThrottleCalls == 3
MaxResetsPerCall == 1
MaxServiceTime == 1
MaxConcurrentLookups == 3
MaxLoggedResets == 2
MaxConcurrentResets == 1

MAX_DOMAINS_PER_BATCH == 10

Callers == {1, 2}

---------------------------------------------------------------------------
(* Strings                                                                 *)

UpperLetters == <<"A","B","C","D","E","F","G","H","I","J","K","L","M",
                  "N","O","P","Q","R","S","T","U","V","W","X","Y","Z">>
LowerLetters == <<"a","b","c","d","e","f","g","h","i","j","k","l","m",
                  "n","o","p","q","r","s","t","u","v","w","x","y","z">>
Digits == {"0","1","2","3","4","5","6","7","8","9"}
(* A string of the program is a sequence of UTF-16 code units, and so is a *)
(* string of the model: a sequence with one element for each code unit.    *)
(* The element is the one-character string of the code unit where a string *)
(* of a module can hold it (U+0000 to U+00FF, and beyond them the code     *)
(* units whose low byte is 80 to FF), and otherwise its escape as          *)
(* ECMAScript writes it, a backslash, u and four hexadecimal digits:       *)
(* "\\u0253" is the code unit U+0253, "\\u2003" the code unit U+2003.  The *)
(* model's strings hold no surrogates (U+D800 to U+DFFF).                  *)

(* what String.prototype.trim removes: WhiteSpace and LineTerminator of    *)
(* ECMAScript                                                              *)
WhiteSpace ==
    { "\t", "\n", "", "\f", "\r", " ", " ", " ", "\\u2000", "\\u2001", "\\u2002", "\\u2003", "\\u2004", "\\u2005", "\\u2006", "\\u2007", "\\u2008", "\\u2009", "\\u200A", "\\u2028", "\\u2029", "\\u202F", "\\u205F", "\\u3000", "﻿" }

Range(f) == {f[x] : x \in DOMAIN f}

(* String.prototype.toLowerCase beyond A to Z (Unicode 17): the code units *)
(* whose lower-case form is another single code unit, and those forms.     *)
(* U+0130 is not among them: its lower-case form has two code units.       *)
UnicodeUpper ==
   << "À", "Á", "Â", "Ã", "Ä", "Å", "Æ", "Ç", "È", "É",
      "Ê", "Ë", "Ì", "Í", "Î", "Ï", "Ð", "Ñ", "Ò", "Ó",
      "Ô", "Õ", "Ö", "Ø", "Ù", "Ú", "Û", "Ü", "Ý", "Þ",
      "\\u0100", "\\u0102", "\\u0104", "\\u0106", "\\u0108", "\\u010A", "\\u010C", "\\u010E", "\\u0110", "\\u0112",
      "\\u0114", "\\u0116", "\\u0118", "\\u011A", "\\u011C", "\\u011E", "\\u0120", "\\u0122", "\\u0124", "\\u0126",
      "\\u0128", "\\u012A", "\\u012C", "\\u012E", "\\u0132", "\\u0134", "\\u0136", "\\u0139", "\\u013B", "\\u013D",
      "\\u013F", "\\u0141", "\\u0143", "\\u0145", "\\u0147", "\\u014A", "\\u014C", "\\u014E", "\\u0150", "\\u0152",
      "\\u0154", "\\u0156", "\\u0158", "\\u015A", "\\u015C", "\\u015E", "\\u0160", "\\u0162", "\\u0164", "\\u0166",
      "\\u0168", "\\u016A", "\\u016C", "\\u016E", "\\u0170", "\\u0172", "\\u0174", "\\u0176", "\\u0178", "\\u0179",
      "\\u017B", "\\u017D", "Ɓ", "Ƃ", "Ƅ", "Ɔ", "Ƈ", "Ɖ", "Ɗ", "Ƌ",
      "Ǝ", "Ə", "Ɛ", "Ƒ", "Ɠ", "Ɣ", "Ɩ", "Ɨ", "Ƙ", "Ɯ",
      "Ɲ", "Ɵ", "Ơ", "Ƣ", "Ƥ", "Ʀ", "Ƨ", "Ʃ", "Ƭ", "Ʈ",
      "Ư", "Ʊ", "Ʋ", "Ƴ", "Ƶ", "Ʒ", "Ƹ", "Ƽ", "Ǆ", "ǅ",
      "Ǉ", "ǈ", "Ǌ", "ǋ", "Ǎ", "Ǐ", "Ǒ", "Ǔ", "Ǖ", "Ǘ",
      "Ǚ", "Ǜ", "Ǟ", "Ǡ", "Ǣ", "Ǥ", "Ǧ", "Ǩ", "Ǫ", "Ǭ",
      "Ǯ", "Ǳ", "ǲ", "Ǵ", "Ƕ", "Ƿ", "Ǹ", "Ǻ", "Ǽ", "Ǿ",
      "\\u0200", "\\u0202", "\\u0204", "\\u0206", "\\u0208", "\\u020A", "\\u020C", "\\u020E", "\\u0210", "\\u0212",
      "\\u0214", "\\u0216", "\\u0218", "\\u021A", "\\u021C", "\\u021E", "\\u0220", "\\u0222", "\\u0224", "\\u0226",
      "\\u0228", "\\u022A", "\\u022C", "\\u022E", "\\u0230", "\\u0232", "\\u023A", "\\u023B", "\\u023D", "\\u023E",
      "\\u0241", "\\u0243", "\\u0244", "\\u0245", "\\u0246", "\\u0248", "\\u024A", "\\u024C", "\\u024E", "\\u0370",
      "\\u0372", "\\u0376", "\\u037F", "Ά", "Έ", "Ή", "Ί", "Ό", "Ύ", "Ώ",
      "Α", "Β", "Γ", "Δ", "Ε", "Ζ", "Η", "Θ", "Ι", "Κ",
      "Λ", "Μ", "Ν", "Ξ", "Ο", "Π", "Ρ", "Σ", "Τ", "Υ",
      "Φ", "Χ", "Ψ", "Ω", "Ϊ", "Ϋ", "Ϗ", "Ϙ", "Ϛ", "Ϝ",
      "Ϟ", "Ϡ", "Ϣ", "Ϥ", "Ϧ", "Ϩ", "Ϫ", "Ϭ", "Ϯ", "ϴ",
      "Ϸ", "Ϲ", "Ϻ", "Ͻ", "Ͼ", "Ͽ", "\\u0400", "\\u0401", "\\u0402", "\\u0403",
      "\\u0404", "\\u0405", "\\u0406", "\\u0407", "\\u0408", "\\u0409", "\\u040A", "\\u040B", "\\u040C", "\\u040D",
      "\\u040E", "\\u040F", "\\u0410", "\\u0411", "\\u0412", "\\u0413", "\\u0414", "\\u0415", "\\u0416", "\\u0417",
      "\\u0418", "\\u0419", "\\u041A", "\\u041B", "\\u041C", "\\u041D", "\\u041E", "\\u041F", "\\u0420", "\\u0421",
      "\\u0422", "\\u0423", "\\u0424", "\\u0425", "\\u0426", "\\u0427", "\\u0428", "\\u0429", "\\u042A", "\\u042B",
      "\\u042C", "\\u042D", "\\u042E", "\\u042F", "\\u0460", "\\u0462", "\\u0464", "\\u0466", "\\u0468", "\\u046A",
      "\\u046C", "\\u046E", "\\u0470", "\\u0472", "\\u0474", "\\u0476", "\\u0478", "\\u047A", "\\u047C", "\\u047E",
      "Ҁ", "Ҋ", "Ҍ", "Ҏ", "Ґ", "Ғ", "Ҕ", "Җ", "Ҙ", "Қ",
      "Ҝ", "Ҟ", "Ҡ", "Ң", "Ҥ", "Ҧ", "Ҩ", "Ҫ", "Ҭ", "Ү",
      "Ұ", "Ҳ", "Ҵ", "Ҷ", "Ҹ", "Һ", "Ҽ", "Ҿ", "Ӏ", "Ӂ",
      "Ӄ", "Ӆ", "Ӈ", "Ӊ", "Ӌ", "Ӎ", "Ӑ", "Ӓ", "Ӕ", "Ӗ",
      "Ә", "Ӛ", "Ӝ", "Ӟ", "Ӡ", "Ӣ", "Ӥ", "Ӧ", "Ө", "Ӫ",
      "Ӭ", "Ӯ", "Ӱ", "Ӳ", "Ӵ", "Ӷ", "Ӹ", "Ӻ", "Ӽ", "Ӿ",
      "\\u0500", "\\u0502", "\\u0504", "\\u0506", "\\u0508", "\\u050A", "\\u050C", "\\u050E", "\\u0510", "\\u0512",
      "\\u0514", "\\u0516", "\\u0518", "\\u051A", "\\u051C", "\\u051E", "\\u0520", "\\u0522", "\\u0524", "\\u0526",
      "\\u0528", "\\u052A", "\\u052C", "\\u052E", "\\u0531", "\\u0532", "\\u0533", "\\u0534", "\\u0535", "\\u0536",
      "\\u0537", "\\u0538", "\\u0539", "\\u053A", "\\u053B", "\\u053C", "\\u053D", "\\u053E", "\\u053F", "\\u0540",
      "\\u0541", "\\u0542", "\\u0543", "\\u0544", "\\u0545", "\\u0546", "\\u0547", "\\u0548", "\\u0549", "\\u054A",
      "\\u054B", "\\u054C", "\\u054D", "\\u054E", "\\u054F", "\\u0550", "\\u0551", "\\u0552", "\\u0553", "\\u0554",
      "\\u0555", "\\u0556", "Ⴀ", "Ⴁ", "Ⴂ", "Ⴃ", "Ⴄ", "Ⴅ", "Ⴆ", "Ⴇ",
      "Ⴈ", "Ⴉ", "Ⴊ", "Ⴋ", "Ⴌ", "Ⴍ", "Ⴎ", "Ⴏ", "Ⴐ", "Ⴑ",
      "Ⴒ", "Ⴓ", "Ⴔ", "Ⴕ", "Ⴖ", "Ⴗ", "Ⴘ", "Ⴙ", "Ⴚ", "Ⴛ",
      "Ⴜ", "Ⴝ", "Ⴞ", "Ⴟ", "Ⴠ", "Ⴡ", "Ⴢ", "Ⴣ", "Ⴤ", "Ⴥ",
      "Ⴧ", "Ⴭ", "Ꭰ", "Ꭱ", "Ꭲ", "Ꭳ", "Ꭴ", "Ꭵ", "Ꭶ", "Ꭷ",
      "Ꭸ", "Ꭹ", "Ꭺ", "Ꭻ", "Ꭼ", "Ꭽ", "Ꭾ", "Ꭿ", "Ꮀ", "Ꮁ",
      "Ꮂ", "Ꮃ", "Ꮄ", "Ꮅ", "Ꮆ", "Ꮇ", "Ꮈ", "Ꮉ", "Ꮊ", "Ꮋ",
      "Ꮌ", "Ꮍ", "Ꮎ", "Ꮏ", "Ꮐ", "Ꮑ", "Ꮒ", "Ꮓ", "Ꮔ", "Ꮕ",
      "Ꮖ", "Ꮗ", "Ꮘ", "Ꮙ", "Ꮚ", "Ꮛ", "Ꮜ", "Ꮝ", "Ꮞ", "Ꮟ",
      "Ꮠ", "Ꮡ", "Ꮢ", "Ꮣ", "Ꮤ", "Ꮥ", "Ꮦ", "Ꮧ", "Ꮨ", "Ꮩ",
      "Ꮪ", "Ꮫ", "Ꮬ", "Ꮭ", "Ꮮ", "Ꮯ", "Ꮰ", "Ꮱ", "Ꮲ", "Ꮳ",
      "Ꮴ", "Ꮵ", "Ꮶ", "Ꮷ", "Ꮸ", "Ꮹ", "Ꮺ", "Ꮻ", "Ꮼ", "Ꮽ",
      "Ꮾ", "Ꮿ", "Ᏸ", "Ᏹ", "Ᏺ", "Ᏻ", "Ᏼ", "Ᏽ", "Ᲊ", "Ა",
      "Ბ", "Გ", "Დ", "Ე", "Ვ", "Ზ", "Თ", "Ი", "Კ", "Ლ",
      "Მ", "Ნ", "Ო", "Პ", "Ჟ", "Რ", "Ს", "Ტ", "Უ", "Ფ",
      "Ქ", "Ღ", "Ყ", "Შ", "Ჩ", "Ც", "Ძ", "Წ", "Ჭ", "Ხ",
      "Ჯ", "Ჰ", "Ჱ", "Ჲ", "Ჳ", "Ჴ", "Ჵ", "Ჶ", "Ჷ", "Ჸ",
      "Ჹ", "Ჺ", "Ჽ", "Ჾ", "Ჿ", "\\u1E00", "\\u1E02", "\\u1E04", "\\u1E06", "\\u1E08",
      "\\u1E0A", "\\u1E0C", "\\u1E0E", "\\u1E10", "\\u1E12", "\\u1E14", "\\u1E16", "\\u1E18", "\\u1E1A", "\\u1E1C",
      "\\u1E1E", "\\u1E20", "\\u1E22", "\\u1E24", "\\u1E26", "\\u1E28", "\\u1E2A", "\\u1E2C", "\\u1E2E", "\\u1E30",
      "\\u1E32", "\\u1E34", "\\u1E36", "\\u1E38", "\\u1E3A", "\\u1E3C", "\\u1E3E", "\\u1E40", "\\u1E42", "\\u1E44",
      "\\u1E46", "\\u1E48", "\\u1E4A", "\\u1E4C", "\\u1E4E", "\\u1E50", "\\u1E52", "\\u1E54", "\\u1E56", "\\u1E58",
      "\\u1E5A", "\\u1E5C", "\\u1E5E", "\\u1E60", "\\u1E62", "\\u1E64", "\\u1E66", "\\u1E68", "\\u1E6A", "\\u1E6C",
      "\\u1E6E", "\\u1E70", "\\u1E72", "\\u1E74", "\\u1E76", "\\u1E78", "\\u1E7A", "\\u1E7C", "\\u1E7E", "Ẁ",
      "Ẃ", "Ẅ", "Ẇ", "Ẉ", "Ẋ", "Ẍ", "Ẏ", "Ẑ", "Ẓ", "Ẕ",
      "ẞ", "Ạ", "Ả", "Ấ", "Ầ", "Ẩ", "Ẫ", "Ậ", "Ắ", "Ằ",
      "Ẳ", "Ẵ", "Ặ", "Ẹ", "Ẻ", "Ẽ", "Ế", "Ề", "Ể", "Ễ",
      "Ệ", "Ỉ", "Ị", "Ọ", "Ỏ", "Ố", "Ồ", "Ổ", "Ỗ", "Ộ",
      "Ớ", "Ờ", "Ở", "Ỡ", "Ợ", "Ụ", "Ủ", "Ứ", "Ừ", "Ử",
      "Ữ", "Ự", "Ỳ", "Ỵ", "Ỷ", "Ỹ", "Ỻ", "Ỽ", "Ỿ", "\\u1F08",
      "\\u1F09", "\\u1F0A", "\\u1F0B", "\\u1F0C", "\\u1F0D", "\\u1F0E", "\\u1F0F", "\\u1F18", "\\u1F19", "\\u1F1A",
      "\\u1F1B", "\\u1F1C", "\\u1F1D", "\\u1F28", "\\u1F29", "\\u1F2A", "\\u1F2B", "\\u1F2C", "\\u1F2D", "\\u1F2E",
      "\\u1F2F", "\\u1F38", "\\u1F39", "\\u1F3A", "\\u1F3B", "\\u1F3C", "\\u1F3D", "\\u1F3E", "\\u1F3F", "\\u1F48",
      "\\u1F49", "\\u1F4A", "\\u1F4B", "\\u1F4C", "\\u1F4D", "\\u1F59", "\\u1F5B", "\\u1F5D", "\\u1F5F", "\\u1F68",
      "\\u1F69", "\\u1F6A", "\\u1F6B", "\\u1F6C", "\\u1F6D", "\\u1F6E", "\\u1F6F", "ᾈ", "ᾉ", "ᾊ",
      "ᾋ", "ᾌ", "ᾍ", "ᾎ", "ᾏ", "ᾘ", "ᾙ", "ᾚ", "ᾛ", "ᾜ",
      "ᾝ", "ᾞ", "ᾟ", "ᾨ", "ᾩ", "ᾪ", "ᾫ", "ᾬ", "ᾭ", "ᾮ",
      "ᾯ", "Ᾰ", "Ᾱ", "Ὰ", "Ά", "ᾼ", "Ὲ", "Έ", "Ὴ", "Ή",
      "ῌ", "Ῐ", "Ῑ", "Ὶ", "Ί", "Ῠ", "Ῡ", "Ὺ", "Ύ", "Ῥ",
      "Ὸ", "Ό", "Ὼ", "Ώ", "ῼ", "\\u2126", "\\u212A", "\\u212B", "\\u2132", "\\u2160",
      "\\u2161", "\\u2162", "\\u2163", "\\u2164", "\\u2165", "\\u2166", "\\u2167", "\\u2168", "\\u2169", "\\u216A",
      "\\u216B", "\\u216C", "\\u216D", "\\u216E", "\\u216F", "Ↄ", "Ⓐ", "Ⓑ", "Ⓒ", "Ⓓ",
      "Ⓔ", "Ⓕ", "Ⓖ", "Ⓗ", "Ⓘ", "Ⓙ", "Ⓚ", "Ⓛ", "Ⓜ", "Ⓝ",
      "Ⓞ", "Ⓟ", "Ⓠ", "Ⓡ", "Ⓢ", "Ⓣ", "Ⓤ", "Ⓥ", "Ⓦ", "Ⓧ",
      "Ⓨ", "Ⓩ", "\\u2C00", "\\u2C01", "\\u2C02", "\\u2C03", "\\u2C04", "\\u2C05", "\\u2C06", "\\u2C07",
      "\\u2C08", "\\u2C09", "\\u2C0A", "\\u2C0B", "\\u2C0C", "\\u2C0D", "\\u2C0E", "\\u2C0F", "\\u2C10", "\\u2C11",
      "\\u2C12", "\\u2C13", "\\u2C14", "\\u2C15", "\\u2C16", "\\u2C17", "\\u2C18", "\\u2C19", "\\u2C1A", "\\u2C1B",
      "\\u2C1C", "\\u2C1D", "\\u2C1E", "\\u2C1F", "\\u2C20", "\\u2C21", "\\u2C22", "\\u2C23", "\\u2C24", "\\u2C25",
      "\\u2C26", "\\u2C27", "\\u2C28", "\\u2C29", "\\u2C2A", "\\u2C2B", "\\u2C2C", "\\u2C2D", "\\u2C2E", "\\u2C2F",
      "\\u2C60", "\\u2C62", "\\u2C63", "\\u2C64", "\\u2C67", "\\u2C69", "\\u2C6B", "\\u2C6D", "\\u2C6E", "\\u2C6F",
      "\\u2C70", "\\u2C72", "\\u2C75", "\\u2C7E", "\\u2C7F", "Ⲁ", "Ⲃ", "Ⲅ", "Ⲇ", "Ⲉ",
      "Ⲋ", "Ⲍ", "Ⲏ", "Ⲑ", "Ⲓ", "Ⲕ", "Ⲗ", "Ⲙ", "Ⲛ", "Ⲝ",
      "Ⲟ", "Ⲡ", "Ⲣ", "Ⲥ", "Ⲧ", "Ⲩ", "Ⲫ", "Ⲭ", "Ⲯ", "Ⲱ",
      "Ⲳ", "Ⲵ", "Ⲷ", "Ⲹ", "Ⲻ", "Ⲽ", "Ⲿ", "Ⳁ", "Ⳃ", "Ⳅ",
      "Ⳇ", "Ⳉ", "Ⳋ", "Ⳍ", "Ⳏ", "Ⳑ", "Ⳓ", "Ⳕ", "Ⳗ", "Ⳙ",
      "Ⳛ", "Ⳝ", "Ⳟ", "Ⳡ", "Ⳣ", "Ⳬ", "Ⳮ", "Ⳳ", "\\uA640", "\\uA642",
      "\\uA644", "\\uA646", "\\uA648", "\\uA64A", "\\uA64C", "\\uA64E", "\\uA650", "\\uA652", "\\uA654", "\\uA656",
      "\\uA658", "\\uA65A", "\\uA65C", "\\uA65E", "\\uA660", "\\uA662", "\\uA664", "\\uA666", "\\uA668", "\\uA66A",
      "\\uA66C", "Ꚁ", "Ꚃ", "Ꚅ", "Ꚇ", "Ꚉ", "Ꚋ", "Ꚍ", "Ꚏ", "Ꚑ",
      "Ꚓ", "Ꚕ", "Ꚗ", "Ꚙ", "Ꚛ", "\\uA722", "\\uA724", "\\uA726", "\\uA728", "\\uA72A",
      "\\uA72C", "\\uA72E", "\\uA732", "\\uA734", "\\uA736", "\\uA738", "\\uA73A", "\\uA73C", "\\uA73E", "\\uA740",
      "\\uA742", "\\uA744", "\\uA746", "\\uA748", "\\uA74A", "\\uA74C", "\\uA74E", "\\uA750", "\\uA752", "\\uA754",
      "\\uA756", "\\uA758", "\\uA75A", "\\uA75C", "\\uA75E", "\\uA760", "\\uA762", "\\uA764", "\\uA766", "\\uA768",
      "\\uA76A", "\\uA76C", "\\uA76E", "\\uA779", "\\uA77B", "\\uA77D", "\\uA77E", "Ꞁ", "Ꞃ", "Ꞅ",
      "Ꞇ", "Ꞌ", "Ɥ", "Ꞑ", "Ꞓ", "Ꞗ", "Ꞙ", "Ꞛ", "Ꞝ", "Ꞟ",
      "Ꞡ", "Ꞣ", "Ꞥ", "Ꞧ", "Ꞩ", "Ɦ", "Ɜ", "Ɡ", "Ɬ", "Ɪ",
      "Ʞ", "Ʇ", "Ʝ", "Ꭓ", "Ꞵ", "Ꞷ", "Ꞹ", "Ꞻ", "Ꞽ", "Ꞿ",
      "Ꟁ", "Ꟃ", "Ꞔ", "Ʂ", "Ᶎ", "Ꟈ", "Ꟊ", "Ɤ", "Ꟍ", "꟎",
      "Ꟑ", "꟒", "꟔", "Ꟗ", "Ꟙ", "Ꟛ", "Ƛ", "Ꟶ", "\\uFF21", "\\uFF22",
      "\\uFF23", "\\uFF24", "\\uFF25", "\\uFF26", "\\uFF27", "\\uFF28", "\\uFF29", "\\uFF2A", "\\uFF2B", "\\uFF2C",
      "\\uFF2D", "\\uFF2E", "\\uFF2F", "\\uFF30", "\\uFF31", "\\uFF32", "\\uFF33", "\\uFF34", "\\uFF35", "\\uFF36",
      "\\uFF37", "\\uFF38", "\\uFF39", "\\uFF3A" >>

UnicodeLower ==
   << "à", "á", "â", "ã", "ä", "å", "æ", "ç", "è", "é",
      "ê", "ë", "ì", "í", "î", "ï", "ð", "ñ", "ò", "ó",
      "ô", "õ", "ö", "ø", "ù", "ú", "û", "ü", "ý", "þ",
      "\\u0101", "\\u0103", "\\u0105", "\\u0107", "\\u0109", "\\u010B", "\\u010D", "\\u010F", "\\u0111", "\\u0113",
      "\\u0115", "\\u0117", "\\u0119", "\\u011B", "\\u011D", "\\u011F", "\\u0121", "\\u0123", "\\u0125", "\\u0127",
      "\\u0129", "\\u012B", "\\u012D", "\\u012F", "\\u0133", "\\u0135", "\\u0137", "\\u013A", "\\u013C", "\\u013E",
      "\\u0140", "\\u0142", "\\u0144", "\\u0146", "\\u0148", "\\u014B", "\\u014D", "\\u014F", "\\u0151", "\\u0153",
      "\\u0155", "\\u0157", "\\u0159", "\\u015B", "\\u015D", "\\u015F", "\\u0161", "\\u0163", "\\u0165", "\\u0167",
      "\\u0169", "\\u016B", "\\u016D", "\\u016F", "\\u0171", "\\u0173", "\\u0175", "\\u0177", "ÿ", "\\u017A",
      "\\u017C", "\\u017E", "\\u0253", "ƃ", "ƅ", "\\u0254", "ƈ", "\\u0256", "\\u0257", "ƌ",
      "ǝ", "\\u0259", "\\u025B", "ƒ", "\\u0260", "\\u0263", "\\u0269", "\\u0268", "ƙ", "\\u026F",
      "\\u0272", "\\u0275", "ơ", "ƣ", "ƥ", "ʀ", "ƨ", "ʃ", "ƭ", "ʈ",
      "ư", "ʊ", "ʋ", "ƴ", "ƶ", "ʒ", "ƹ", "ƽ", "ǆ", "ǆ",
      "ǉ", "ǉ", "ǌ", "ǌ", "ǎ", "ǐ", "ǒ", "ǔ", "ǖ", "ǘ",
      "ǚ", "ǜ", "ǟ", "ǡ", "ǣ", "ǥ", "ǧ", "ǩ", "ǫ", "ǭ",
      "ǯ", "ǳ", "ǳ", "ǵ", "ƕ", "ƿ", "ǹ", "ǻ", "ǽ", "ǿ",
      "\\u0201", "\\u0203", "\\u0205", "\\u0207", "\\u0209", "\\u020B", "\\u020D", "\\u020F", "\\u0211", "\\u0213",
      "\\u0215", "\\u0217", "\\u0219", "\\u021B", "\\u021D", "\\u021F", "ƞ", "\\u0223", "\\u0225", "\\u0227",
      "\\u0229", "\\u022B", "\\u022D", "\\u022F", "\\u0231", "\\u0233", "\\u2C65", "\\u023C", "ƚ", "\\u2C66",
      "\\u0242", "ƀ", "ʉ", "ʌ", "\\u0247", "\\u0249", "\\u024B", "\\u024D", "\\u024F", "\\u0371",
      "\\u0373", "\\u0377", "ϳ", "ά", "έ", "ή", "ί", "ό", "ύ", "ώ",
      "α", "β", "γ", "δ", "ε", "ζ", "η", "θ", "ι", "κ",
      "λ", "μ", "ν", "ξ", "ο", "π", "ρ", "σ", "τ", "υ",
      "φ", "χ", "ψ", "ω", "ϊ", "ϋ", "ϗ", "ϙ", "ϛ", "ϝ",
      "ϟ", "ϡ", "ϣ", "ϥ", "ϧ", "ϩ", "ϫ", "ϭ", "ϯ", "θ",
      "ϸ", "ϲ", "ϻ", "\\u037B", "\\u037C", "\\u037D", "\\u0450", "\\u0451", "\\u0452", "\\u0453",
      "\\u0454", "\\u0455", "\\u0456", "\\u0457", "\\u0458", "\\u0459", "\\u045A", "\\u045B", "\\u045C", "\\u045D",
      "\\u045E", "\\u045F", "\\u0430", "\\u0431", "\\u0432", "\\u0433", "\\u0434", "\\u0435", "\\u0436", "\\u0437",
      "\\u0438", "\\u0439", "\\u043A", "\\u043B", "\\u043C", "\\u043D", "\\u043E", "\\u043F", "\\u0440", "\\u0441",
      "\\u0442", "\\u0443", "\\u0444", "\\u0445", "\\u0446", "\\u0447", "\\u0448", "\\u0449", "\\u044A", "\\u044B",
      "\\u044C", "\\u044D", "\\u044E", "\\u044F", "\\u0461", "\\u0463", "\\u0465", "\\u0467", "\\u0469", "\\u046B",
      "\\u046D", "\\u046F", "\\u0471", "\\u0473", "\\u0475", "\\u0477", "\\u0479", "\\u047B", "\\u047D", "\\u047F",
      "ҁ", "ҋ", "ҍ", "ҏ", "ґ", "ғ", "ҕ", "җ", "ҙ", "қ",
      "ҝ", "ҟ", "ҡ", "ң", "ҥ", "ҧ", "ҩ", "ҫ", "ҭ", "ү",
      "ұ", "ҳ", "ҵ", "ҷ", "ҹ", "һ", "ҽ", "ҿ", "ӏ", "ӂ",
      "ӄ", "ӆ", "ӈ", "ӊ", "ӌ", "ӎ", "ӑ", "ӓ", "ӕ", "ӗ",
      "ә", "ӛ", "ӝ", "ӟ", "ӡ", "ӣ", "ӥ", "ӧ", "ө", "ӫ",
      "ӭ", "ӯ", "ӱ", "ӳ", "ӵ", "ӷ", "ӹ", "ӻ", "ӽ", "ӿ",
      "\\u0501", "\\u0503", "\\u0505", "\\u0507", "\\u0509", "\\u050B", "\\u050D", "\\u050F", "\\u0511", "\\u0513",
      "\\u0515", "\\u0517", "\\u0519", "\\u051B", "\\u051D", "\\u051F", "\\u0521", "\\u0523", "\\u0525", "\\u0527",
      "\\u0529", "\\u052B", "\\u052D", "\\u052F", "\\u0561", "\\u0562", "\\u0563", "\\u0564", "\\u0565", "\\u0566",
      "\\u0567", "\\u0568", "\\u0569", "\\u056A", "\\u056B", "\\u056C", "\\u056D", "\\u056E", "\\u056F", "\\u0570",
      "\\u0571", "\\u0572", "\\u0573", "\\u0574", "\\u0575", "\\u0576", "\\u0577", "\\u0578", "\\u0579", "\\u057A",
      "\\u057B", "\\u057C", "\\u057D", "\\u057E", "\\u057F", "ր", "ց", "ւ", "փ", "ք",
      "օ", "ֆ", "\\u2D00", "\\u2D01", "\\u2D02", "\\u2D03", "\\u2D04", "\\u2D05", "\\u2D06", "\\u2D07",
      "\\u2D08", "\\u2D09", "\\u2D0A", "\\u2D0B", "\\u2D0C", "\\u2D0D", "\\u2D0E", "\\u2D0F", "\\u2D10", "\\u2D11",
      "\\u2D12", "\\u2D13", "\\u2D14", "\\u2D15", "\\u2D16", "\\u2D17", "\\u2D18", "\\u2D19", "\\u2D1A", "\\u2D1B",
      "\\u2D1C", "\\u2D1D", "\\u2D1E", "\\u2D1F", "\\u2D20", "\\u2D21", "\\u2D22", "\\u2D23", "\\u2D24", "\\u2D25",
      "\\u2D27", "\\u2D2D", "\\uAB70", "\\uAB71", "\\uAB72", "\\uAB73", "\\uAB74", "\\uAB75", "\\uAB76", "\\uAB77",
      "\\uAB78", "\\uAB79", "\\uAB7A", "\\uAB7B", "\\uAB7C", "\\uAB7D", "\\uAB7E", "\\uAB7F", "ꮀ", "ꮁ",
      "ꮂ", "ꮃ", "ꮄ", "ꮅ", "ꮆ", "ꮇ", "ꮈ", "ꮉ", "ꮊ", "ꮋ",
      "ꮌ", "ꮍ", "ꮎ", "ꮏ", "ꮐ", "ꮑ", "ꮒ", "ꮓ", "ꮔ", "ꮕ",
      "ꮖ", "ꮗ", "ꮘ", "ꮙ", "ꮚ", "ꮛ", "ꮜ", "ꮝ", "ꮞ", "ꮟ",
      "ꮠ", "ꮡ", "ꮢ", "ꮣ", "ꮤ", "ꮥ", "ꮦ", "ꮧ", "ꮨ", "ꮩ",
      "ꮪ", "ꮫ", "ꮬ", "ꮭ", "ꮮ", "ꮯ", "ꮰ", "ꮱ", "ꮲ", "ꮳ",
      "ꮴ", "ꮵ", "ꮶ", "ꮷ", "ꮸ", "ꮹ", "ꮺ", "ꮻ", "ꮼ", "ꮽ",
      "ꮾ", "ꮿ", "ᏸ", "ᏹ", "ᏺ", "ᏻ", "ᏼ", "ᏽ", "ᲊ", "ა",
      "ბ", "გ", "დ", "ე", "ვ", "ზ", "თ", "ი", "კ", "ლ",
      "მ", "ნ", "ო", "პ", "ჟ", "რ", "ს", "ტ", "უ", "ფ",
      "ქ", "ღ", "ყ", "შ", "ჩ", "ც", "ძ", "წ", "ჭ", "ხ",
      "ჯ", "ჰ", "ჱ", "ჲ", "ჳ", "ჴ", "ჵ", "ჶ", "ჷ", "ჸ",
      "ჹ", "ჺ", "ჽ", "ჾ", "ჿ", "\\u1E01", "\\u1E03", "\\u1E05", "\\u1E07", "\\u1E09",
      "\\u1E0B", "\\u1E0D", "\\u1E0F", "\\u1E11", "\\u1E13", "\\u1E15", "\\u1E17", "\\u1E19", "\\u1E1B", "\\u1E1D",
      "\\u1E1F", "\\u1E21", "\\u1E23", "\\u1E25", "\\u1E27", "\\u1E29", "\\u1E2B", "\\u1E2D", "\\u1E2F", "\\u1E31",
      "\\u1E33", "\\u1E35", "\\u1E37", "\\u1E39", "\\u1E3B", "\\u1E3D", "\\u1E3F", "\\u1E41", "\\u1E43", "\\u1E45",
      "\\u1E47", "\\u1E49", "\\u1E4B", "\\u1E4D", "\\u1E4F", "\\u1E51", "\\u1E53", "\\u1E55", "\\u1E57", "\\u1E59",
      "\\u1E5B", "\\u1E5D", "\\u1E5F", "\\u1E61", "\\u1E63", "\\u1E65", "\\u1E67", "\\u1E69", "\\u1E6B", "\\u1E6D",
      "\\u1E6F", "\\u1E71", "\\u1E73", "\\u1E75", "\\u1E77", "\\u1E79", "\\u1E7B", "\\u1E7D", "\\u1E7F", "ẁ",
      "ẃ", "ẅ", "ẇ", "ẉ", "ẋ", "ẍ", "ẏ", "ẑ", "ẓ", "ẕ",
      "ß", "ạ", "ả", "ấ", "ầ", "ẩ", "ẫ", "ậ", "ắ", "ằ",
      "ẳ", "ẵ", "ặ", "ẹ", "ẻ", "ẽ", "ế", "ề", "ể", "ễ",
      "ệ", "ỉ", "ị", "ọ", "ỏ", "ố", "ồ", "ổ", "ỗ", "ộ",
      "ớ", "ờ", "ở", "ỡ", "ợ", "ụ", "ủ", "ứ", "ừ", "ử",
      "ữ", "ự", "ỳ", "ỵ", "ỷ", "ỹ", "ỻ", "ỽ", "ỿ", "\\u1F00",
      "\\u1F01", "\\u1F02", "\\u1F03", "\\u1F04", "\\u1F05", "\\u1F06", "\\u1F07", "\\u1F10", "\\u1F11", "\\u1F12",
      "\\u1F13", "\\u1F14", "\\u1F15", "\\u1F20", "\\u1F21", "\\u1F22", "\\u1F23", "\\u1F24", "\\u1F25", "\\u1F26",
      "\\u1F27", "\\u1F30", "\\u1F31", "\\u1F32", "\\u1F33", "\\u1F34", "\\u1F35", "\\u1F36", "\\u1F37", "\\u1F40",
      "\\u1F41", "\\u1F42", "\\u1F43", "\\u1F44", "\\u1F45", "\\u1F51", "\\u1F53", "\\u1F55", "\\u1F57", "\\u1F60",
      "\\u1F61", "\\u1F62", "\\u1F63", "\\u1F64", "\\u1F65", "\\u1F66", "\\u1F67", "ᾀ", "ᾁ", "ᾂ",
      "ᾃ", "ᾄ", "ᾅ", "ᾆ", "ᾇ", "ᾐ", "ᾑ", "ᾒ", "ᾓ", "ᾔ",
      "ᾕ", "ᾖ", "ᾗ", "ᾠ", "ᾡ", "ᾢ", "ᾣ", "ᾤ", "ᾥ", "ᾦ",
      "ᾧ", "ᾰ", "ᾱ", "\\u1F70", "\\u1F71", "ᾳ", "\\u1F72", "\\u1F73", "\\u1F74", "\\u1F75",
      "ῃ", "ῐ", "ῑ", "\\u1F76", "\\u1F77", "ῠ", "ῡ", "\\u1F7A", "\\u1F7B", "ῥ",
      "\\u1F78", "\\u1F79", "\\u1F7C", "\\u1F7D", "ῳ", "ω", "k", "å", "\\u214E", "\\u2170",
      "\\u2171", "\\u2172", "\\u2173", "\\u2174", "\\u2175", "\\u2176", "\\u2177", "\\u2178", "\\u2179", "\\u217A",
      "\\u217B", "\\u217C", "\\u217D", "\\u217E", "\\u217F", "ↄ", "ⓐ", "ⓑ", "ⓒ", "ⓓ",
      "ⓔ", "ⓕ", "ⓖ", "ⓗ", "ⓘ", "ⓙ", "ⓚ", "ⓛ", "ⓜ", "ⓝ",
      "ⓞ", "ⓟ", "ⓠ", "ⓡ", "ⓢ", "ⓣ", "ⓤ", "ⓥ", "ⓦ", "ⓧ",
      "ⓨ", "ⓩ", "\\u2C30", "\\u2C31", "\\u2C32", "\\u2C33", "\\u2C34", "\\u2C35", "\\u2C36", "\\u2C37",
      "\\u2C38", "\\u2C39", "\\u2C3A", "\\u2C3B", "\\u2C3C", "\\u2C3D", "\\u2C3E", "\\u2C3F", "\\u2C40", "\\u2C41",
      "\\u2C42", "\\u2C43", "\\u2C44", "\\u2C45", "\\u2C46", "\\u2C47", "\\u2C48", "\\u2C49", "\\u2C4A", "\\u2C4B",
      "\\u2C4C", "\\u2C4D", "\\u2C4E", "\\u2C4F", "\\u2C50", "\\u2C51", "\\u2C52", "\\u2C53", "\\u2C54", "\\u2C55",
      "\\u2C56", "\\u2C57", "\\u2C58", "\\u2C59", "\\u2C5A", "\\u2C5B", "\\u2C5C", "\\u2C5D", "\\u2C5E", "\\u2C5F",
      "\\u2C61", "\\u026B", "\\u1D7D", "\\u027D", "\\u2C68", "\\u2C6A", "\\u2C6C", "\\u0251", "\\u0271", "\\u0250",
      "\\u0252", "\\u2C73", "\\u2C76", "\\u023F", "\\u0240", "ⲁ", "ⲃ", "ⲅ", "ⲇ", "ⲉ",
      "ⲋ", "ⲍ", "ⲏ", "ⲑ", "ⲓ", "ⲕ", "ⲗ", "ⲙ", "ⲛ", "ⲝ",
      "ⲟ", "ⲡ", "ⲣ", "ⲥ", "ⲧ", "ⲩ", "ⲫ", "ⲭ", "ⲯ", "ⲱ",
      "ⲳ", "ⲵ", "ⲷ", "ⲹ", "ⲻ", "ⲽ", "ⲿ", "ⳁ", "ⳃ", "ⳅ",
      "ⳇ", "ⳉ", "ⳋ", "ⳍ", "ⳏ", "ⳑ", "ⳓ", "ⳕ", "ⳗ", "ⳙ",
      "ⳛ", "ⳝ", "ⳟ", "ⳡ", "ⳣ", "ⳬ", "ⳮ", "ⳳ", "\\uA641", "\\uA643",
      "\\uA645", "\\uA647", "\\uA649", "\\uA64B", "\\uA64D", "\\uA64F", "\\uA651", "\\uA653", "\\uA655", "\\uA657",
      "\\uA659", "\\uA65B", "\\uA65D", "\\uA65F", "\\uA661", "\\uA663", "\\uA665", "\\uA667", "\\uA669", "\\uA66B",
      "\\uA66D", "ꚁ", "ꚃ", "ꚅ", "ꚇ", "ꚉ", "ꚋ", "ꚍ", "ꚏ", "ꚑ",
      "ꚓ", "ꚕ", "ꚗ", "ꚙ", "ꚛ", "\\uA723", "\\uA725", "\\uA727", "\\uA729", "\\uA72B",
      "\\uA72D", "\\uA72F", "\\uA733", "\\uA735", "\\uA737", "\\uA739", "\\uA73B", "\\uA73D", "\\uA73F", "\\uA741",
      "\\uA743", "\\uA745", "\\uA747", "\\uA749", "\\uA74B", "\\uA74D", "\\uA74F", "\\uA751", "\\uA753", "\\uA755",
      "\\uA757", "\\uA759", "\\uA75B", "\\uA75D", "\\uA75F", "\\uA761", "\\uA763", "\\uA765", "\\uA767", "\\uA769",
      "\\uA76B", "\\uA76D", "\\uA76F", "\\uA77A", "\\uA77C", "\\u1D79", "\\uA77F", "ꞁ", "ꞃ", "ꞅ",
      "ꞇ", "ꞌ", "\\u0265", "ꞑ", "ꞓ", "ꞗ", "ꞙ", "ꞛ", "ꞝ", "ꞟ",
      "ꞡ", "ꞣ", "ꞥ", "ꞧ", "ꞩ", "\\u0266", "\\u025C", "\\u0261", "\\u026C", "\\u026A",
      "ʞ", "ʇ", "ʝ", "\\uAB53", "ꞵ", "ꞷ", "ꞹ", "ꞻ", "ꞽ", "ꞿ",
      "ꟁ", "ꟃ", "ꞔ", "ʂ", "ᶎ", "ꟈ", "ꟊ", "\\u0264", "ꟍ", "꟏",
      "ꟑ", "ꟓ", "ꟕ", "ꟗ", "ꟙ", "ꟛ", "ƛ", "ꟶ", "\\uFF41", "\\uFF42",
      "\\uFF43", "\\uFF44", "\\uFF45", "\\uFF46", "\\uFF47", "\\uFF48", "\\uFF49", "\\uFF4A", "\\uFF4B", "\\uFF4C",
      "\\uFF4D", "\\uFF4E", "\\uFF4F", "\\uFF50", "\\uFF51", "\\uFF52", "\\uFF53", "\\uFF54", "\\uFF55", "\\uFF56",
      "\\uFF57", "\\uFF58", "\\uFF59", "\\uFF5A" >>

(* the lower-case form of each code unit of UnicodeUpper *)
LowerOf ==
    [c \in Range(UnicodeUpper) |->
        UnicodeLower[CHOOSE k \in DOMAIN UnicodeUpper : UnicodeUpper[k] = c]]

LowerChar(c) ==
    IF \E k \in 1..26 : UpperLetters[k] = c
    THEN LowerLetters[CHOOSE k \in 1..26 : UpperLetters[k] = c]
    ELSE IF c \in DOMAIN LowerOf THEN LowerOf[c]
    ELSE c

(* The properties Cased and Case_Ignorable of Unicode, which decide the    *)
(* lower-case form of the capital sigma. U+0295 is a letter without case   *)
(* and belongs to neither.                                                 *)
Cased ==
   { "A", "B", "C", "D", "E", "F", "G", "H", "I", "J",
      "K", "L", "M", "N", "O", "P", "Q", "R", "S", "T",
      "U", "V", "W", "X", "Y", "Z", "a", "b", "c", "d",
      "e", "f", "g", "h", "i", "j", "k", "l", "m", "n",
      "o", "p", "q", "r", "s", "t", "u", "v", "w", "x",
      "y", "z", "ª", "µ", "º", "À", "Á", "Â", "Ã", "Ä",
      "Å", "Æ", "Ç", "È", "É", "Ê", "Ë", "Ì", "Í", "Î",
      "Ï", "Ð", "Ñ", "Ò", "Ó", "Ô", "Õ", "Ö", "Ø", "Ù",
      "Ú", "Û", "Ü", "Ý", "Þ", "ß", "à", "á", "â", "ã",
      "ä", "å", "æ", "ç", "è", "é", "ê", "ë", "ì", "í",
      "î", "ï", "ð", "ñ", "ò", "ó", "ô", "õ", "ö", "ø",
      "ù", "ú", "û", "ü", "ý", "þ", "ÿ", "\\u0100", "\\u0101", "\\u0102",
      "\\u0103", "\\u0104", "\\u0105", "\\u0106", "\\u0107", "\\u0108", "\\u0109", "\\u010A", "\\u010B", "\\u010C",
      "\\u010D", "\\u010E", "\\u010F", "\\u0110", "\\u0111", "\\u0112", "\\u0113", "\\u0114", "\\u0115", "\\u0116",
      "\\u0117", "\\u0118", "\\u0119", "\\u011A", "\\u011B", "\\u011C", "\\u011D", "\\u011E", "\\u011F", "\\u0120",
      "\\u0121", "\\u0122", "\\u0123", "\\u0124", "\\u0125", "\\u0126", "\\u0127", "\\u0128", "\\u0129", "\\u012A",
      "\\u012B", "\\u012C", "\\u012D", "\\u012E", "\\u012F", "\\u0130", "\\u0131", "\\u0132", "\\u0133", "\\u0134",
      "\\u0135", "\\u0136", "\\u0137", "\\u0138", "\\u0139", "\\u013A", "\\u013B", "\\u013C", "\\u013D", "\\u013E",
      "\\u013F", "\\u0140", "\\u0141", "\\u0142", "\\u0143", "\\u0144", "\\u0145", "\\u0146", "\\u0147", "\\u0148",
      "\\u0149", "\\u014A", "\\u014B", "\\u014C", "\\u014D", "\\u014E", "\\u014F", "\\u0150", "\\u0151", "\\u0152",
      "\\u0153", "\\u0154", "\\u0155", "\\u0156", "\\u0157", "\\u0158", "\\u0159", "\\u015A", "\\u015B", "\\u015C",
      "\\u015D", "\\u015E", "\\u015F", "\\u0160", "\\u0161", "\\u0162", "\\u0163", "\\u0164", "\\u0165", "\\u0166",
      "\\u0167", "\\u0168", "\\u0169", "\\u016A", "\\u016B", "\\u016C", "\\u016D", "\\u016E", "\\u016F", "\\u0170",
      "\\u0171", "\\u0172", "\\u0173", "\\u0174", "\\u0175", "\\u0176", "\\u0177", "\\u0178", "\\u0179", "\\u017A",
      "\\u017B", "\\u017C", "\\u017D", "\\u017E", "\\u017F", "ƀ", "Ɓ", "Ƃ", "ƃ", "Ƅ",
      "ƅ", "Ɔ", "Ƈ", "ƈ", "Ɖ", "Ɗ", "Ƌ", "ƌ", "ƍ", "Ǝ",
      "Ə", "Ɛ", "Ƒ", "ƒ", "Ɠ", "Ɣ", "ƕ", "Ɩ", "Ɨ", "Ƙ",
      "ƙ", "ƚ", "ƛ", "Ɯ", "Ɲ", "ƞ", "Ɵ", "Ơ", "ơ", "Ƣ",
      "ƣ", "Ƥ", "ƥ", "Ʀ", "Ƨ", "ƨ", "Ʃ", "ƪ", "ƫ", "Ƭ",
      "ƭ", "Ʈ", "Ư", "ư", "Ʊ", "Ʋ", "Ƴ", "ƴ", "Ƶ", "ƶ",
      "Ʒ", "Ƹ", "ƹ", "ƺ", "Ƽ", "ƽ", "ƾ", "ƿ", "Ǆ", "ǅ",
      "ǆ", "Ǉ", "ǈ", "ǉ", "Ǌ", "ǋ", "ǌ", "Ǎ", "ǎ", "Ǐ",
      "ǐ", "Ǒ", "ǒ", "Ǔ", "ǔ", "Ǖ", "ǖ", "Ǘ", "ǘ", "Ǚ",
      "ǚ", "Ǜ", "ǜ", "ǝ", "Ǟ", "ǟ", "Ǡ", "ǡ", "Ǣ", "ǣ",
      "Ǥ", "ǥ", "Ǧ", "ǧ", "Ǩ", "ǩ", "Ǫ", "ǫ", "Ǭ", "ǭ",
      "Ǯ", "ǯ", "ǰ", "Ǳ", "ǲ", "ǳ", "Ǵ", "ǵ", "Ƕ", "Ƿ",
      "Ǹ", "ǹ", "Ǻ", "ǻ", "Ǽ", "ǽ", "Ǿ", "ǿ", "\\u0200", "\\u0201",
      "\\u0202", "\\u0203", "\\u0204", "\\u0205", "\\u0206", "\\u0207", "\\u0208", "\\u0209", "\\u020A", "\\u020B",
      "\\u020C", "\\u020D", "\\u020E", "\\u020F", "\\u0210", "\\u0211", "\\u0212", "\\u0213", "\\u0214", "\\u0215",
      "\\u0216", "\\u0217", "\\u0218", "\\u0219", "\\u021A", "\\u021B", "\\u021C", "\\u021D", "\\u021E", "\\u021F",
      "\\u0220", "\\u0221", "\\u0222", "\\u0223", "\\u0224", "\\u0225", "\\u0226", "\\u0227", "\\u0228", "\\u0229",
      "\\u022A", "\\u022B", "\\u022C", "\\u022D", "\\u022E", "\\u022F", "\\u0230", "\\u0231", "\\u0232", "\\u0233",
      "\\u0234", "\\u0235", "\\u0236", "\\u0237", "\\u0238", "\\u0239", "\\u023A", "\\u023B", "\\u023C", "\\u023D",
      "\\u023E", "\\u023F", "\\u0240", "\\u0241", "\\u0242", "\\u0243", "\\u0244", "\\u0245", "\\u0246", "\\u0247",
      "\\u0248", "\\u0249", "\\u024A", "\\u024B", "\\u024C", "\\u024D", "\\u024E", "\\u024F", "\\u0250", "\\u0251",
      "\\u0252", "\\u0253", "\\u0254", "\\u0255", "\\u0256", "\\u0257", "\\u0258", "\\u0259", "\\u025A", "\\u025B",
      "\\u025C", "\\u025D", "\\u025E", "\\u025F", "\\u0260", "\\u0261", "\\u0262", "\\u0263", "\\u0264", "\\u0265",
      "\\u0266", "\\u0267", "\\u0268", "\\u0269", "\\u026A", "\\u026B", "\\u026C", "\\u026D", "\\u026E", "\\u026F",
      "\\u0270", "\\u0271", "\\u0272", "\\u0273", "\\u0274", "\\u0275", "\\u0276", "\\u0277", "\\u0278", "\\u0279",
      "\\u027A", "\\u027B", "\\u027C", "\\u027D", "\\u027E", "\\u027F", "ʀ", "ʁ", "ʂ", "ʃ",
      "ʄ", "ʅ", "ʆ", "ʇ", "ʈ", "ʉ", "ʊ", "ʋ", "ʌ", "ʍ",
      "ʎ", "ʏ", "ʐ", "ʑ", "ʒ", "ʓ", "ʖ", "ʗ", "ʘ",
      "ʙ", "ʚ", "ʛ", "ʜ", "ʝ", "ʞ", "ʟ", "ʠ", "ʡ", "ʢ",
      "ʣ", "ʤ", "ʥ", "ʦ", "ʧ", "ʨ", "ʩ", "ʪ", "ʫ", "ʬ",
      "ʭ", "ʮ", "ʯ", "ʰ", "ʱ", "ʲ", "ʳ", "ʴ", "ʵ", "ʶ",
      "ʷ", "ʸ", "ˀ", "ˁ", "ˠ", "ˡ", "ˢ", "ˣ", "ˤ", "\\u0345",
      "\\u0370", "\\u0371", "\\u0372", "\\u0373", "\\u0376", "\\u0377", "\\u037A", "\\u037B", "\\u037C", "\\u037D",
      "\\u037F", "Ά", "Έ", "Ή", "Ί", "Ό", "Ύ", "Ώ", "ΐ", "Α",
      "Β", "Γ", "Δ", "Ε", "Ζ", "Η", "Θ", "Ι", "Κ", "Λ",
      "Μ", "Ν", "Ξ", "Ο", "Π", "Ρ", "Σ", "Τ", "Υ", "Φ",
      "Χ", "Ψ", "Ω", "Ϊ", "Ϋ", "ά", "έ", "ή", "ί", "ΰ",
      "α", "β", "γ", "δ", "ε", "ζ", "η", "θ", "ι", "κ",
      "λ", "μ", "ν", "ξ", "ο", "π", "ρ", "ς", "σ", "τ",
      "υ", "φ", "χ", "ψ", "ω", "ϊ", "ϋ", "ό", "ύ", "ώ",
      "Ϗ", "ϐ", "ϑ", "ϒ", "ϓ", "ϔ", "ϕ", "ϖ", "ϗ", "Ϙ",
      "ϙ", "Ϛ", "ϛ", "Ϝ", "ϝ", "Ϟ", "ϟ", "Ϡ", "ϡ", "Ϣ",
      "ϣ", "Ϥ", "ϥ", "Ϧ", "ϧ", "Ϩ", "ϩ", "Ϫ", "ϫ", "Ϭ",
      "ϭ", "Ϯ", "ϯ", "ϰ", "ϱ", "ϲ", "ϳ", "ϴ", "ϵ", "Ϸ",
      "ϸ", "Ϲ", "Ϻ", "ϻ", "ϼ", "Ͻ", "Ͼ", "Ͽ", "\\u0400", "\\u0401",
      "\\u0402", "\\u0403", "\\u0404", "\\u0405", "\\u0406", "\\u0407", "\\u0408", "\\u0409", "\\u040A", "\\u040B",
      "\\u040C", "\\u040D", "\\u040E", "\\u040F", "\\u0410", "\\u0411", "\\u0412", "\\u0413", "\\u0414", "\\u0415",
      "\\u0416", "\\u0417", "\\u0418", "\\u0419", "\\u041A", "\\u041B", "\\u041C", "\\u041D", "\\u041E", "\\u041F",
      "\\u0420", "\\u0421", "\\u0422", "\\u0423", "\\u0424", "\\u0425", "\\u0426", "\\u0427", "\\u0428", "\\u0429",
      "\\u042A", "\\u042B", "\\u042C", "\\u042D", "\\u042E", "\\u042F", "\\u0430", "\\u0431", "\\u0432", "\\u0433",
      "\\u0434", "\\u0435", "\\u0436", "\\u0437", "\\u0438", "\\u0439", "\\u043A", "\\u043B", "\\u043C", "\\u043D",
      "\\u043E", "\\u043F", "\\u0440", "\\u0441", "\\u0442", "\\u0443", "\\u0444", "\\u0445", "\\u0446", "\\u0447",
      "\\u0448", "\\u0449", "\\u044A", "\\u044B", "\\u044C", "\\u044D", "\\u044E", "\\u044F", "\\u0450", "\\u0451",
      "\\u0452", "\\u0453", "\\u0454", "\\u0455", "\\u0456", "\\u0457", "\\u0458", "\\u0459", "\\u045A", "\\u045B",
      "\\u045C", "\\u045D", "\\u045E", "\\u045F", "\\u0460", "\\u0461", "\\u0462", "\\u0463", "\\u0464", "\\u0465",
      "\\u0466", "\\u0467", "\\u0468", "\\u0469", "\\u046A", "\\u046B", "\\u046C", "\\u046D", "\\u046E", "\\u046F",
      "\\u0470", "\\u0471", "\\u0472", "\\u0473", "\\u0474", "\\u0475", "\\u0476", "\\u0477", "\\u0478", "\\u0479",
      "\\u047A", "\\u047B", "\\u047C", "\\u047D", "\\u047E", "\\u047F", "Ҁ", "ҁ", "Ҋ", "ҋ",
      "Ҍ", "ҍ", "Ҏ", "ҏ", "Ґ", "ґ", "Ғ", "ғ", "Ҕ", "ҕ",
      "Җ", "җ", "Ҙ", "ҙ", "Қ", "қ", "Ҝ", "ҝ", "Ҟ", "ҟ",
      "Ҡ", "ҡ", "Ң", "ң", "Ҥ", "ҥ", "Ҧ", "ҧ", "Ҩ", "ҩ",
      "Ҫ", "ҫ", "Ҭ", "ҭ", "Ү", "ү", "Ұ", "ұ", "Ҳ", "ҳ",
      "Ҵ", "ҵ", "Ҷ", "ҷ", "Ҹ", "ҹ", "Һ", "һ", "Ҽ", "ҽ",
      "Ҿ", "ҿ", "Ӏ", "Ӂ", "ӂ", "Ӄ", "ӄ", "Ӆ", "ӆ", "Ӈ",
      "ӈ", "Ӊ", "ӊ", "Ӌ", "ӌ", "Ӎ", "ӎ", "ӏ", "Ӑ", "ӑ",
      "Ӓ", "ӓ", "Ӕ", "ӕ", "Ӗ", "ӗ", "Ә", "ә", "Ӛ", "ӛ",
      "Ӝ", "ӝ", "Ӟ", "ӟ", "Ӡ", "ӡ", "Ӣ", "ӣ", "Ӥ", "ӥ",
      "Ӧ", "ӧ", "Ө", "ө", "Ӫ", "ӫ", "Ӭ", "ӭ", "Ӯ", "ӯ",
      "Ӱ", "ӱ", "Ӳ", "ӳ", "Ӵ", "ӵ", "Ӷ", "ӷ", "Ӹ", "ӹ",
      "Ӻ", "ӻ", "Ӽ", "ӽ", "Ӿ", "ӿ", "\\u0500", "\\u0501", "\\u0502", "\\u0503",
      "\\u0504", "\\u0505", "\\u0506", "\\u0507", "\\u0508", "\\u0509", "\\u050A", "\\u050B", "\\u050C", "\\u050D",
      "\\u050E", "\\u050F", "\\u0510", "\\u0511", "\\u0512", "\\u0513", "\\u0514", "\\u0515", "\\u0516", "\\u0517",
      "\\u0518", "\\u0519", "\\u051A", "\\u051B", "\\u051C", "\\u051D", "\\u051E", "\\u051F", "\\u0520", "\\u0521",
      "\\u0522", "\\u0523", "\\u0524", "\\u0525", "\\u0526", "\\u0527", "\\u0528", "\\u0529", "\\u052A", "\\u052B",
      "\\u052C", "\\u052D", "\\u052E", "\\u052F", "\\u0531", "\\u0532", "\\u0533", "\\u0534", "\\u0535", "\\u0536",
      "\\u0537", "\\u0538", "\\u0539", "\\u053A", "\\u053B", "\\u053C", "\\u053D", "\\u053E", "\\u053F", "\\u0540",
      "\\u0541", "\\u0542", "\\u0543", "\\u0544", "\\u0545", "\\u0546", "\\u0547", "\\u0548", "\\u0549", "\\u054A",
      "\\u054B", "\\u054C", "\\u054D", "\\u054E", "\\u054F", "\\u0550", "\\u0551", "\\u0552", "\\u0553", "\\u0554",
      "\\u0555", "\\u0556", "\\u0560", "\\u0561", "\\u0562", "\\u0563", "\\u0564", "\\u0565", "\\u0566", "\\u0567",
      "\\u0568", "\\u0569", "\\u056A", "\\u056B", "\\u056C", "\\u056D", "\\u056E", "\\u056F", "\\u0570", "\\u0571",
      "\\u0572", "\\u0573", "\\u0574", "\\u0575", "\\u0576", "\\u0577", "\\u0578", "\\u0579", "\\u057A", "\\u057B",
      "\\u057C", "\\u057D", "\\u057E", "\\u057F", "ր", "ց", "ւ", "փ", "ք", "օ",
      "ֆ", "և", "ֈ", "Ⴀ", "Ⴁ", "Ⴂ", "Ⴃ", "Ⴄ", "Ⴅ", "Ⴆ",
      "Ⴇ", "Ⴈ", "Ⴉ", "Ⴊ", "Ⴋ", "Ⴌ", "Ⴍ", "Ⴎ", "Ⴏ", "Ⴐ",
      "Ⴑ", "Ⴒ", "Ⴓ", "Ⴔ", "Ⴕ", "Ⴖ", "Ⴗ", "Ⴘ", "Ⴙ", "Ⴚ",
      "Ⴛ", "Ⴜ", "Ⴝ", "Ⴞ", "Ⴟ", "Ⴠ", "Ⴡ", "Ⴢ", "Ⴣ", "Ⴤ",
      "Ⴥ", "Ⴧ", "Ⴭ", "ა", "ბ", "გ", "დ", "ე", "ვ", "ზ",
      "თ", "ი", "კ", "ლ", "მ", "ნ", "ო", "პ", "ჟ", "რ",
      "ს", "ტ", "უ", "ფ", "ქ", "ღ", "ყ", "შ", "ჩ", "ც",
      "ძ", "წ", "ჭ", "ხ", "ჯ", "ჰ", "ჱ", "ჲ", "ჳ", "ჴ",
      "ჵ", "ჶ", "ჷ", "ჸ", "ჹ", "ჺ", "ჽ", "ჾ", "ჿ", "Ꭰ",
      "Ꭱ", "Ꭲ", "Ꭳ", "Ꭴ", "Ꭵ", "Ꭶ", "Ꭷ", "Ꭸ", "Ꭹ", "Ꭺ",
      "Ꭻ", "Ꭼ", "Ꭽ", "Ꭾ", "Ꭿ", "Ꮀ", "Ꮁ", "Ꮂ", "Ꮃ", "Ꮄ",
      "Ꮅ", "Ꮆ", "Ꮇ", "Ꮈ", "Ꮉ", "Ꮊ", "Ꮋ", "Ꮌ", "Ꮍ", "Ꮎ",
      "Ꮏ", "Ꮐ", "Ꮑ", "Ꮒ", "Ꮓ", "Ꮔ", "Ꮕ", "Ꮖ", "Ꮗ", "Ꮘ",
      "Ꮙ", "Ꮚ", "Ꮛ", "Ꮜ", "Ꮝ", "Ꮞ", "Ꮟ", "Ꮠ", "Ꮡ", "Ꮢ",
      "Ꮣ", "Ꮤ", "Ꮥ", "Ꮦ", "Ꮧ", "Ꮨ", "Ꮩ", "Ꮪ", "Ꮫ", "Ꮬ",
      "Ꮭ", "Ꮮ", "Ꮯ", "Ꮰ", "Ꮱ", "Ꮲ", "Ꮳ", "Ꮴ", "Ꮵ", "Ꮶ",
      "Ꮷ", "Ꮸ", "Ꮹ", "Ꮺ", "Ꮻ", "Ꮼ", "Ꮽ", "Ꮾ", "Ꮿ", "Ᏸ",
      "Ᏹ", "Ᏺ", "Ᏻ", "Ᏼ", "Ᏽ", "ᏸ", "ᏹ", "ᏺ", "ᏻ", "ᏼ",
      "ᏽ", "ᲀ", "ᲁ", "ᲂ", "ᲃ", "ᲄ", "ᲅ", "ᲆ", "ᲇ", "ᲈ",
      "Ᲊ", "ᲊ", "Ა", "Ბ", "Გ", "Დ", "Ე", "Ვ", "Ზ", "Თ",
      "Ი", "Კ", "Ლ", "Მ", "Ნ", "Ო", "Პ", "Ჟ", "Რ", "Ს",
      "Ტ", "Უ", "Ფ", "Ქ", "Ღ", "Ყ", "Შ", "Ჩ", "Ც", "Ძ",
      "Წ", "Ჭ", "Ხ", "Ჯ", "Ჰ", "Ჱ", "Ჲ", "Ჳ", "Ჴ", "Ჵ",
      "Ჶ", "Ჷ", "Ჸ", "Ჹ", "Ჺ", "Ჽ", "Ჾ", "Ჿ", "\\u1D00", "\\u1D01",
      "\\u1D02", "\\u1D03", "\\u1D04", "\\u1D05", "\\u1D06", "\\u1D07", "\\u1D08", "\\u1D09", "\\u1D0A", "\\u1D0B",
      "\\u1D0C", "\\u1D0D", "\\u1D0E", "\\u1D0F", "\\u1D10", "\\u1D11", "\\u1D12", "\\u1D13", "\\u1D14", "\\u1D15",
      "\\u1D16", "\\u1D17", "\\u1D18", "\\u1D19", "\\u1D1A", "\\u1D1B", "\\u1D1C", "\\u1D1D", "\\u1D1E", "\\u1D1F",
      "\\u1D20", "\\u1D21", "\\u1D22", "\\u1D23", "\\u1D24", "\\u1D25", "\\u1D26", "\\u1D27", "\\u1D28", "\\u1D29",
      "\\u1D2A", "\\u1D2B", "\\u1D2C", "\\u1D2D", "\\u1D2E", "\\u1D2F", "\\u1D30", "\\u1D31", "\\u1D32", "\\u1D33",
      "\\u1D34", "\\u1D35", "\\u1D36", "\\u1D37", "\\u1D38", "\\u1D39", "\\u1D3A", "\\u1D3B", "\\u1D3C", "\\u1D3D",
      "\\u1D3E", "\\u1D3F", "\\u1D40", "\\u1D41", "\\u1D42", "\\u1D43", "\\u1D44", "\\u1D45", "\\u1D46", "\\u1D47",
      "\\u1D48", "\\u1D49", "\\u1D4A", "\\u1D4B", "\\u1D4C", "\\u1D4D", "\\u1D4E", "\\u1D4F", "\\u1D50", "\\u1D51",
      "\\u1D52", "\\u1D53", "\\u1D54", "\\u1D55", "\\u1D56", "\\u1D57", "\\u1D58", "\\u1D59", "\\u1D5A", "\\u1D5B",
      "\\u1D5C", "\\u1D5D", "\\u1D5E", "\\u1D5F", "\\u1D60", "\\u1D61", "\\u1D62", "\\u1D63", "\\u1D64", "\\u1D65",
      "\\u1D66", "\\u1D67", "\\u1D68", "\\u1D69", "\\u1D6A", "\\u1D6B", "\\u1D6C", "\\u1D6D", "\\u1D6E", "\\u1D6F",
      "\\u1D70", "\\u1D71", "\\u1D72", "\\u1D73", "\\u1D74", "\\u1D75", "\\u1D76", "\\u1D77", "\\u1D78", "\\u1D79",
      "\\u1D7A", "\\u1D7B", "\\u1D7C", "\\u1D7D", "\\u1D7E", "\\u1D7F", "ᶀ", "ᶁ", "ᶂ", "ᶃ",
      "ᶄ", "ᶅ", "ᶆ", "ᶇ", "ᶈ", "ᶉ", "ᶊ", "ᶋ", "ᶌ", "ᶍ",
      "ᶎ", "ᶏ", "ᶐ", "ᶑ", "ᶒ", "ᶓ", "ᶔ", "ᶕ", "ᶖ", "ᶗ",
      "ᶘ", "ᶙ", "ᶚ", "ᶛ", "ᶜ", "ᶝ", "ᶞ", "ᶟ", "ᶠ", "ᶡ",
      "ᶢ", "ᶣ", "ᶤ", "ᶥ", "ᶦ", "ᶧ", "ᶨ", "ᶩ", "ᶪ", "ᶫ",
      "ᶬ", "ᶭ", "ᶮ", "ᶯ", "ᶰ", "ᶱ", "ᶲ", "ᶳ", "ᶴ", "ᶵ",
      "ᶶ", "ᶷ", "ᶸ", "ᶹ", "ᶺ", "ᶻ", "ᶼ", "ᶽ", "ᶾ", "ᶿ",
      "\\u1E00", "\\u1E01", "\\u1E02", "\\u1E03", "\\u1E04", "\\u1E05", "\\u1E06", "\\u1E07", "\\u1E08", "\\u1E09",
      "\\u1E0A", "\\u1E0B", "\\u1E0C", "\\u1E0D", "\\u1E0E", "\\u1E0F", "\\u1E10", "\\u1E11", "\\u1E12", "\\u1E13",
      "\\u1E14", "\\u1E15", "\\u1E16", "\\u1E17", "\\u1E18", "\\u1E19", "\\u1E1A", "\\u1E1B", "\\u1E1C", "\\u1E1D",
      "\\u1E1E", "\\u1E1F", "\\u1E20", "\\u1E21", "\\u1E22", "\\u1E23", "\\u1E24", "\\u1E25", "\\u1E26", "\\u1E27",
      "\\u1E28", "\\u1E29", "\\u1E2A", "\\u1E2B", "\\u1E2C", "\\u1E2D", "\\u1E2E", "\\u1E2F", "\\u1E30", "\\u1E31",
      "\\u1E32", "\\u1E33", "\\u1E34", "\\u1E35", "\\u1E36", "\\u1E37", "\\u1E38", "\\u1E39", "\\u1E3A", "\\u1E3B",
      "\\u1E3C", "\\u1E3D", "\\u1E3E", "\\u1E3F", "\\u1E40", "\\u1E41", "\\u1E42", "\\u1E43", "\\u1E44", "\\u1E45",
      "\\u1E46", "\\u1E47", "\\u1E48", "\\u1E49", "\\u1E4A", "\\u1E4B", "\\u1E4C", "\\u1E4D", "\\u1E4E", "\\u1E4F",
      "\\u1E50", "\\u1E51", "\\u1E52", "\\u1E53", "\\u1E54", "\\u1E55", "\\u1E56", "\\u1E57", "\\u1E58", "\\u1E59",
      "\\u1E5A", "\\u1E5B", "\\u1E5C", "\\u1E5D", "\\u1E5E", "\\u1E5F", "\\u1E60", "\\u1E61", "\\u1E62", "\\u1E63",
      "\\u1E64", "\\u1E65", "\\u1E66", "\\u1E67", "\\u1E68", "\\u1E69", "\\u1E6A", "\\u1E6B", "\\u1E6C", "\\u1E6D",
      "\\u1E6E", "\\u1E6F", "\\u1E70", "\\u1E71", "\\u1E72", "\\u1E73", "\\u1E74", "\\u1E75", "\\u1E76", "\\u1E77",
      "\\u1E78", "\\u1E79", "\\u1E7A", "\\u1E7B", "\\u1E7C", "\\u1E7D", "\\u1E7E", "\\u1E7F", "Ẁ", "ẁ",
      "Ẃ", "ẃ", "Ẅ", "ẅ", "Ẇ", "ẇ", "Ẉ", "ẉ", "Ẋ", "ẋ",
      "Ẍ", "ẍ", "Ẏ", "ẏ", "Ẑ", "ẑ", "Ẓ", "ẓ", "Ẕ", "ẕ",
      "ẖ", "ẗ", "ẘ", "ẙ", "ẚ", "ẛ", "ẜ", "ẝ", "ẞ", "ẟ",
      "Ạ", "ạ", "Ả", "ả", "Ấ", "ấ", "Ầ", "ầ", "Ẩ", "ẩ",
      "Ẫ", "ẫ", "Ậ", "ậ", "Ắ", "ắ", "Ằ", "ằ", "Ẳ", "ẳ",
      "Ẵ", "ẵ", "Ặ", "ặ", "Ẹ", "ẹ", "Ẻ", "ẻ", "Ẽ", "ẽ",
      "Ế", "ế", "Ề", "ề", "Ể", "ể", "Ễ", "ễ", "Ệ", "ệ",
      "Ỉ", "ỉ", "Ị", "ị", "Ọ", "ọ", "Ỏ", "ỏ", "Ố", "ố",
      "Ồ", "ồ", "Ổ", "ổ", "Ỗ", "ỗ", "Ộ", "ộ", "Ớ", "ớ",
      "Ờ", "ờ", "Ở", "ở", "Ỡ", "ỡ", "Ợ", "ợ", "Ụ", "ụ",
      "Ủ", "ủ", "Ứ", "ứ", "Ừ", "ừ", "Ử", "ử", "Ữ", "ữ",
      "Ự", "ự", "Ỳ", "ỳ", "Ỵ", "ỵ", "Ỷ", "ỷ", "Ỹ", "ỹ",
      "Ỻ", "ỻ", "Ỽ", "ỽ", "Ỿ", "ỿ", "\\u1F00", "\\u1F01", "\\u1F02", "\\u1F03",
      "\\u1F04", "\\u1F05", "\\u1F06", "\\u1F07", "\\u1F08", "\\u1F09", "\\u1F0A", "\\u1F0B", "\\u1F0C", "\\u1F0D",
      "\\u1F0E", "\\u1F0F", "\\u1F10", "\\u1F11", "\\u1F12", "\\u1F13", "\\u1F14", "\\u1F15", "\\u1F18", "\\u1F19",
      "\\u1F1A", "\\u1F1B", "\\u1F1C", "\\u1F1D", "\\u1F20", "\\u1F21", "\\u1F22", "\\u1F23", "\\u1F24", "\\u1F25",
      "\\u1F26", "\\u1F27", "\\u1F28", "\\u1F29", "\\u1F2A", "\\u1F2B", "\\u1F2C", "\\u1F2D", "\\u1F2E", "\\u1F2F",
      "\\u1F30", "\\u1F31", "\\u1F32", "\\u1F33", "\\u1F34", "\\u1F35", "\\u1F36", "\\u1F37", "\\u1F38", "\\u1F39",
      "\\u1F3A", "\\u1F3B", "\\u1F3C", "\\u1F3D", "\\u1F3E", "\\u1F3F", "\\u1F40", "\\u1F41", "\\u1F42", "\\u1F43",
      "\\u1F44", "\\u1F45", "\\u1F48", "\\u1F49", "\\u1F4A", "\\u1F4B", "\\u1F4C", "\\u1F4D", "\\u1F50", "\\u1F51",
      "\\u1F52", "\\u1F53", "\\u1F54", "\\u1F55", "\\u1F56", "\\u1F57", "\\u1F59", "\\u1F5B", "\\u1F5D", "\\u1F5F",
      "\\u1F60", "\\u1F61", "\\u1F62", "\\u1F63", "\\u1F64", "\\u1F65", "\\u1F66", "\\u1F67", "\\u1F68", "\\u1F69",
      "\\u1F6A", "\\u1F6B", "\\u1F6C", "\\u1F6D", "\\u1F6E", "\\u1F6F", "\\u1F70", "\\u1F71", "\\u1F72", "\\u1F73",
      "\\u1F74", "\\u1F75", "\\u1F76", "\\u1F77", "\\u1F78", "\\u1F79", "\\u1F7A", "\\u1F7B", "\\u1F7C", "\\u1F7D",
      "ᾀ", "ᾁ", "ᾂ", "ᾃ", "ᾄ", "ᾅ", "ᾆ", "ᾇ", "ᾈ", "ᾉ",
      "ᾊ", "ᾋ", "ᾌ", "ᾍ", "ᾎ", "ᾏ", "ᾐ", "ᾑ", "ᾒ", "ᾓ",
      "ᾔ", "ᾕ", "ᾖ", "ᾗ", "ᾘ", "ᾙ", "ᾚ", "ᾛ", "ᾜ", "ᾝ",
      "ᾞ", "ᾟ", "ᾠ", "ᾡ", "ᾢ", "ᾣ", "ᾤ", "ᾥ", "ᾦ", "ᾧ",
      "ᾨ", "ᾩ", "ᾪ", "ᾫ", "ᾬ", "ᾭ", "ᾮ", "ᾯ", "ᾰ", "ᾱ",
      "ᾲ", "ᾳ", "ᾴ", "ᾶ", "ᾷ", "Ᾰ", "Ᾱ", "Ὰ", "Ά", "ᾼ",
      "ι", "ῂ", "ῃ", "ῄ", "ῆ", "ῇ", "Ὲ", "Έ", "Ὴ", "Ή",
      "ῌ", "ῐ", "ῑ", "ῒ", "ΐ", "ῖ", "ῗ", "Ῐ", "Ῑ", "Ὶ",
      "Ί", "ῠ", "ῡ", "ῢ", "ΰ", "ῤ", "ῥ", "ῦ", "ῧ", "Ῠ",
      "Ῡ", "Ὺ", "Ύ", "Ῥ", "ῲ", "ῳ", "ῴ", "ῶ", "ῷ", "Ὸ",
      "Ό", "Ὼ", "Ώ", "ῼ", "\\u2071", "\\u207F", "ₐ", "ₑ", "ₒ", "ₓ",
      "ₔ", "ₕ", "ₖ", "ₗ", "ₘ", "ₙ", "ₚ", "ₛ", "ₜ", "\\u2102",
      "\\u2107", "\\u210A", "\\u210B", "\\u210C", "\\u210D", "\\u210E", "\\u210F", "\\u2110", "\\u2111", "\\u2112",
      "\\u2113", "\\u2115", "\\u2119", "\\u211A", "\\u211B", "\\u211C", "\\u211D", "\\u2124", "\\u2126", "\\u2128",
      "\\u212A", "\\u212B", "\\u212C", "\\u212D", "\\u212F", "\\u2130", "\\u2131", "\\u2132", "\\u2133", "\\u2134",
      "\\u2139", "\\u213C", "\\u213D", "\\u213E", "\\u213F", "\\u2145", "\\u2146", "\\u2147", "\\u2148", "\\u2149",
      "\\u214E", "\\u2160", "\\u2161", "\\u2162", "\\u2163", "\\u2164", "\\u2165", "\\u2166", "\\u2167", "\\u2168",
      "\\u2169", "\\u216A", "\\u216B", "\\u216C", "\\u216D", "\\u216E", "\\u216F", "\\u2170", "\\u2171", "\\u2172",
      "\\u2173", "\\u2174", "\\u2175", "\\u2176", "\\u2177", "\\u2178", "\\u2179", "\\u217A", "\\u217B", "\\u217C",
      "\\u217D", "\\u217E", "\\u217F", "Ↄ", "ↄ", "Ⓐ", "Ⓑ", "Ⓒ", "Ⓓ", "Ⓔ",
      "Ⓕ", "Ⓖ", "Ⓗ", "Ⓘ", "Ⓙ", "Ⓚ", "Ⓛ", "Ⓜ", "Ⓝ", "Ⓞ",
      "Ⓟ", "Ⓠ", "Ⓡ", "Ⓢ", "Ⓣ", "Ⓤ", "Ⓥ", "Ⓦ", "Ⓧ", "Ⓨ",
      "Ⓩ", "ⓐ", "ⓑ", "ⓒ", "ⓓ", "ⓔ", "ⓕ", "ⓖ", "ⓗ", "ⓘ",
      "ⓙ", "ⓚ", "ⓛ", "ⓜ", "ⓝ", "ⓞ", "ⓟ", "ⓠ", "ⓡ", "ⓢ",
      "ⓣ", "ⓤ", "ⓥ", "ⓦ", "ⓧ", "ⓨ", "ⓩ", "\\u2C00", "\\u2C01", "\\u2C02",
      "\\u2C03", "\\u2C04", "\\u2C05", "\\u2C06", "\\u2C07", "\\u2C08", "\\u2C09", "\\u2C0A", "\\u2C0B", "\\u2C0C",
      "\\u2C0D", "\\u2C0E", "\\u2C0F", "\\u2C10", "\\u2C11", "\\u2C12", "\\u2C13", "\\u2C14", "\\u2C15", "\\u2C16",
      "\\u2C17", "\\u2C18", "\\u2C19", "\\u2C1A", "\\u2C1B", "\\u2C1C", "\\u2C1D", "\\u2C1E", "\\u2C1F", "\\u2C20",
      "\\u2C21", "\\u2C22", "\\u2C23", "\\u2C24", "\\u2C25", "\\u2C26", "\\u2C27", "\\u2C28", "\\u2C29", "\\u2C2A",
      "\\u2C2B", "\\u2C2C", "\\u2C2D", "\\u2C2E", "\\u2C2F", "\\u2C30", "\\u2C31", "\\u2C32", "\\u2C33", "\\u2C34",
      "\\u2C35", "\\u2C36", "\\u2C37", "\\u2C38", "\\u2C39", "\\u2C3A", "\\u2C3B", "\\u2C3C", "\\u2C3D", "\\u2C3E",
      "\\u2C3F", "\\u2C40", "\\u2C41", "\\u2C42", "\\u2C43", "\\u2C44", "\\u2C45", "\\u2C46", "\\u2C47", "\\u2C48",
      "\\u2C49", "\\u2C4A", "\\u2C4B", "\\u2C4C", "\\u2C4D", "\\u2C4E", "\\u2C4F", "\\u2C50", "\\u2C51", "\\u2C52",
      "\\u2C53", "\\u2C54", "\\u2C55", "\\u2C56", "\\u2C57", "\\u2C58", "\\u2C59", "\\u2C5A", "\\u2C5B", "\\u2C5C",
      "\\u2C5D", "\\u2C5E", "\\u2C5F", "\\u2C60", "\\u2C61", "\\u2C62", "\\u2C63", "\\u2C64", "\\u2C65", "\\u2C66",
      "\\u2C67", "\\u2C68", "\\u2C69", "\\u2C6A", "\\u2C6B", "\\u2C6C", "\\u2C6D", "\\u2C6E", "\\u2C6F", "\\u2C70",
      "\\u2C71", "\\u2C72", "\\u2C73", "\\u2C74", "\\u2C75", "\\u2C76", "\\u2C77", "\\u2C78", "\\u2C79", "\\u2C7A",
      "\\u2C7B", "\\u2C7C", "\\u2C7D", "\\u2C7E", "\\u2C7F", "Ⲁ", "ⲁ", "Ⲃ", "ⲃ", "Ⲅ",
      "ⲅ", "Ⲇ", "ⲇ", "Ⲉ", "ⲉ", "Ⲋ", "ⲋ", "Ⲍ", "ⲍ", "Ⲏ",
      "ⲏ", "Ⲑ", "ⲑ", "Ⲓ", "ⲓ", "Ⲕ", "ⲕ", "Ⲗ", "ⲗ", "Ⲙ",
      "ⲙ", "Ⲛ", "ⲛ", "Ⲝ", "ⲝ", "Ⲟ", "ⲟ", "Ⲡ", "ⲡ", "Ⲣ",
      "ⲣ", "Ⲥ", "ⲥ", "Ⲧ", "ⲧ", "Ⲩ", "ⲩ", "Ⲫ", "ⲫ", "Ⲭ",
      "ⲭ", "Ⲯ", "ⲯ", "Ⲱ", "ⲱ", "Ⲳ", "ⲳ", "Ⲵ", "ⲵ", "Ⲷ",
      "ⲷ", "Ⲹ", "ⲹ", "Ⲻ", "ⲻ", "Ⲽ", "ⲽ", "Ⲿ", "ⲿ", "Ⳁ",
      "ⳁ", "Ⳃ", "ⳃ", "Ⳅ", "ⳅ", "Ⳇ", "ⳇ", "Ⳉ", "ⳉ", "Ⳋ",
      "ⳋ", "Ⳍ", "ⳍ", "Ⳏ", "ⳏ", "Ⳑ", "ⳑ", "Ⳓ", "ⳓ", "Ⳕ",
      "ⳕ", "Ⳗ", "ⳗ", "Ⳙ", "ⳙ", "Ⳛ", "ⳛ", "Ⳝ", "ⳝ", "Ⳟ",
      "ⳟ", "Ⳡ", "ⳡ", "Ⳣ", "ⳣ", "ⳤ", "Ⳬ", "ⳬ", "Ⳮ", "ⳮ",
      "Ⳳ", "ⳳ", "\\u2D00", "\\u2D01", "\\u2D02", "\\u2D03", "\\u2D04", "\\u2D05", "\\u2D06", "\\u2D07",
      "\\u2D08", "\\u2D09", "\\u2D0A", "\\u2D0B", "\\u2D0C", "\\u2D0D", "\\u2D0E", "\\u2D0F", "\\u2D10", "\\u2D11",
      "\\u2D12", "\\u2D13", "\\u2D14", "\\u2D15", "\\u2D16", "\\u2D17", "\\u2D18", "\\u2D19", "\\u2D1A", "\\u2D1B",
      "\\u2D1C", "\\u2D1D", "\\u2D1E", "\\u2D1F", "\\u2D20", "\\u2D21", "\\u2D22", "\\u2D23", "\\u2D24", "\\u2D25",
      "\\u2D27", "\\u2D2D", "\\uA640", "\\uA641", "\\uA642", "\\uA643", "\\uA644", "\\uA645", "\\uA646", "\\uA647",
      "\\uA648", "\\uA649", "\\uA64A", "\\uA64B", "\\uA64C", "\\uA64D", "\\uA64E", "\\uA64F", "\\uA650", "\\uA651",
      "\\uA652", "\\uA653", "\\uA654", "\\uA655", "\\uA656", "\\uA657", "\\uA658", "\\uA659", "\\uA65A", "\\uA65B",
      "\\uA65C", "\\uA65D", "\\uA65E", "\\uA65F", "\\uA660", "\\uA661", "\\uA662", "\\uA663", "\\uA664", "\\uA665",
      "\\uA666", "\\uA667", "\\uA668", "\\uA669", "\\uA66A", "\\uA66B", "\\uA66C", "\\uA66D", "Ꚁ", "ꚁ",
      "Ꚃ", "ꚃ", "Ꚅ", "ꚅ", "Ꚇ", "ꚇ", "Ꚉ", "ꚉ", "Ꚋ", "ꚋ",
      "Ꚍ", "ꚍ", "Ꚏ", "ꚏ", "Ꚑ", "ꚑ", "Ꚓ", "ꚓ", "Ꚕ", "ꚕ",
      "Ꚗ", "ꚗ", "Ꚙ", "ꚙ", "Ꚛ", "ꚛ", "ꚜ", "ꚝ", "\\uA722", "\\uA723",
      "\\uA724", "\\uA725", "\\uA726", "\\uA727", "\\uA728", "\\uA729", "\\uA72A", "\\uA72B", "\\uA72C", "\\uA72D",
      "\\uA72E", "\\uA72F", "\\uA730", "\\uA731", "\\uA732", "\\uA733", "\\uA734", "\\uA735", "\\uA736", "\\uA737",
      "\\uA738", "\\uA739", "\\uA73A", "\\uA73B", "\\uA73C", "\\uA73D", "\\uA73E", "\\uA73F", "\\uA740", "\\uA741",
      "\\uA742", "\\uA743", "\\uA744", "\\uA745", "\\uA746", "\\uA747", "\\uA748", "\\uA749", "\\uA74A", "\\uA74B",
      "\\uA74C", "\\uA74D", "\\uA74E", "\\uA74F", "\\uA750", "\\uA751", "\\uA752", "\\uA753", "\\uA754", "\\uA755",
      "\\uA756", "\\uA757", "\\uA758", "\\uA759", "\\uA75A", "\\uA75B", "\\uA75C", "\\uA75D", "\\uA75E", "\\uA75F",
      "\\uA760", "\\uA761", "\\uA762", "\\uA763", "\\uA764", "\\uA765", "\\uA766", "\\uA767", "\\uA768", "\\uA769",
      "\\uA76A", "\\uA76B", "\\uA76C", "\\uA76D", "\\uA76E", "\\uA76F", "\\uA770", "\\uA771", "\\uA772", "\\uA773",
      "\\uA774", "\\uA775", "\\uA776", "\\uA777", "\\uA778", "\\uA779", "\\uA77A", "\\uA77B", "\\uA77C", "\\uA77D",
      "\\uA77E", "\\uA77F", "Ꞁ", "ꞁ", "Ꞃ", "ꞃ", "Ꞅ", "ꞅ", "Ꞇ", "ꞇ",
      "Ꞌ", "ꞌ", "Ɥ", "ꞎ", "Ꞑ", "ꞑ", "Ꞓ", "ꞓ", "ꞔ", "ꞕ",
      "Ꞗ", "ꞗ", "Ꞙ", "ꞙ", "Ꞛ", "ꞛ", "Ꞝ", "ꞝ", "Ꞟ", "ꞟ",
      "Ꞡ", "ꞡ", "Ꞣ", "ꞣ", "Ꞥ", "ꞥ", "Ꞧ", "ꞧ", "Ꞩ", "ꞩ",
      "Ɦ", "Ɜ", "Ɡ", "Ɬ", "Ɪ", "ꞯ", "Ʞ", "Ʇ", "Ʝ", "Ꭓ",
      "Ꞵ", "ꞵ", "Ꞷ", "ꞷ", "Ꞹ", "ꞹ", "Ꞻ", "ꞻ", "Ꞽ", "ꞽ",
      "Ꞿ", "ꞿ", "Ꟁ", "ꟁ", "Ꟃ", "ꟃ", "Ꞔ", "Ʂ", "Ᶎ", "Ꟈ",
      "ꟈ", "Ꟊ", "ꟊ", "Ɤ", "Ꟍ", "ꟍ", "꟎", "꟏", "Ꟑ", "ꟑ",
      "꟒", "ꟓ", "꟔", "ꟕ", "Ꟗ", "ꟗ", "Ꟙ", "ꟙ", "Ꟛ", "ꟛ",
      "Ƛ", "꟱", "Ꟶ", "ꟶ", "ꟸ", "ꟹ", "ꟺ", "\\uAB30", "\\uAB31", "\\uAB32",
      "\\uAB33", "\\uAB34", "\\uAB35", "\\uAB36", "\\uAB37", "\\uAB38", "\\uAB39", "\\uAB3A", "\\uAB3B", "\\uAB3C",
      "\\uAB3D", "\\uAB3E", "\\uAB3F", "\\uAB40", "\\uAB41", "\\uAB42", "\\uAB43", "\\uAB44", "\\uAB45", "\\uAB46",
      "\\uAB47", "\\uAB48", "\\uAB49", "\\uAB4A", "\\uAB4B", "\\uAB4C", "\\uAB4D", "\\uAB4E", "\\uAB4F", "\\uAB50",
      "\\uAB51", "\\uAB52", "\\uAB53", "\\uAB54", "\\uAB55", "\\uAB56", "\\uAB57", "\\uAB58", "\\uAB59", "\\uAB5A",
      "\\uAB5C", "\\uAB5D", "\\uAB5E", "\\uAB5F", "\\uAB60", "\\uAB61", "\\uAB62", "\\uAB63", "\\uAB64", "\\uAB65",
      "\\uAB66", "\\uAB67", "\\uAB68", "\\uAB70", "\\uAB71", "\\uAB72", "\\uAB73", "\\uAB74", "\\uAB75", "\\uAB76",
      "\\uAB77", "\\uAB78", "\\uAB79", "\\uAB7A", "\\uAB7B", "\\uAB7C", "\\uAB7D", "\\uAB7E", "\\uAB7F", "ꮀ",
      "ꮁ", "ꮂ", "ꮃ", "ꮄ", "ꮅ", "ꮆ", "ꮇ", "ꮈ", "ꮉ", "ꮊ",
      "ꮋ", "ꮌ", "ꮍ", "ꮎ", "ꮏ", "ꮐ", "ꮑ", "ꮒ", "ꮓ", "ꮔ",
      "ꮕ", "ꮖ", "ꮗ", "ꮘ", "ꮙ", "ꮚ", "ꮛ", "ꮜ", "ꮝ", "ꮞ",
      "ꮟ", "ꮠ", "ꮡ", "ꮢ", "ꮣ", "ꮤ", "ꮥ", "ꮦ", "ꮧ", "ꮨ",
      "ꮩ", "ꮪ", "ꮫ", "ꮬ", "ꮭ", "ꮮ", "ꮯ", "ꮰ", "ꮱ", "ꮲ",
      "ꮳ", "ꮴ", "ꮵ", "ꮶ", "ꮷ", "ꮸ", "ꮹ", "ꮺ", "ꮻ", "ꮼ",
      "ꮽ", "ꮾ", "ꮿ", "\\uFB00", "\\uFB01", "\\uFB02", "\\uFB03", "\\uFB04", "\\uFB05", "\\uFB06",
      "\\uFB13", "\\uFB14", "\\uFB15", "\\uFB16", "\\uFB17", "\\uFF21", "\\uFF22", "\\uFF23", "\\uFF24", "\\uFF25",
      "\\uFF26", "\\uFF27", "\\uFF28", "\\uFF29", "\\uFF2A", "\\uFF2B", "\\uFF2C", "\\uFF2D", "\\uFF2E", "\\uFF2F",
      "\\uFF30", "\\uFF31", "\\uFF32", "\\uFF33", "\\uFF34", "\\uFF35", "\\uFF36", "\\uFF37", "\\uFF38", "\\uFF39",
      "\\uFF3A", "\\uFF41", "\\uFF42", "\\uFF43", "\\uFF44", "\\uFF45", "\\uFF46", "\\uFF47", "\\uFF48", "\\uFF49",
      "\\uFF4A", "\\uFF4B", "\\uFF4C", "\\uFF4D", "\\uFF4E", "\\uFF4F", "\\uFF50", "\\uFF51", "\\uFF52", "\\uFF53",
      "\\uFF54", "\\uFF55", "\\uFF56", "\\uFF57", "\\uFF58", "\\uFF59", "\\uFF5A" }

CaseIgnorable ==
   { "'", ".", ":", "^", "\\u0060", "¨", "­", "¯", "´", "·",
      "¸", "ʰ", "ʱ", "ʲ", "ʳ", "ʴ", "ʵ", "ʶ", "ʷ", "ʸ",
      "ʹ", "ʺ", "ʻ", "ʼ", "ʽ", "ʾ", "ʿ", "ˀ", "ˁ", "˂",
      "˃", "˄", "˅", "ˆ", "ˇ", "ˈ", "ˉ", "ˊ", "ˋ", "ˌ",
      "ˍ", "ˎ", "ˏ", "ː", "ˑ", "˒", "˓", "˔", "˕", "˖",
      "˗", "˘", "˙", "˚", "˛", "˜", "˝", "˞", "˟", "ˠ",
      "ˡ", "ˢ", "ˣ", "ˤ", "˥", "˦", "˧", "˨", "˩", "˪",
      "˫", "ˬ", "˭", "ˮ", "˯", "˰", "˱", "˲", "˳", "˴",
      "˵", "˶", "˷", "˸", "˹", "˺", "˻", "˼", "˽", "˾",
      "˿", "\\u0300", "\\u0301", "\\u0302", "\\u0303", "\\u0304", "\\u0305", "\\u0306", "\\u0307", "\\u0308",
      "\\u0309", "\\u030A", "\\u030B", "\\u030C", "\\u030D", "\\u030E", "\\u030F", "\\u0310", "\\u0311", "\\u0312",
      "\\u0313", "\\u0314", "\\u0315", "\\u0316", "\\u0317", "\\u0318", "\\u0319", "\\u031A", "\\u031B", "\\u031C",
      "\\u031D", "\\u031E", "\\u031F", "\\u0320", "\\u0321", "\\u0322", "\\u0323", "\\u0324", "\\u0325", "\\u0326",
      "\\u0327", "\\u0328", "\\u0329", "\\u032A", "\\u032B", "\\u032C", "\\u032D", "\\u032E", "\\u032F", "\\u0330",
      "\\u0331", "\\u0332", "\\u0333", "\\u0334", "\\u0335", "\\u0336", "\\u0337", "\\u0338", "\\u0339", "\\u033A",
      "\\u033B", "\\u033C", "\\u033D", "\\u033E", "\\u033F", "\\u0340", "\\u0341", "\\u0342", "\\u0343", "\\u0344",
      "\\u0345", "\\u0346", "\\u0347", "\\u0348", "\\u0349", "\\u034A", "\\u034B", "\\u034C", "\\u034D", "\\u034E",
      "\\u034F", "\\u0350", "\\u0351", "\\u0352", "\\u0353", "\\u0354", "\\u0355", "\\u0356", "\\u0357", "\\u0358",
      "\\u0359", "\\u035A", "\\u035B", "\\u035C", "\\u035D", "\\u035E", "\\u035F", "\\u0360", "\\u0361", "\\u0362",
      "\\u0363", "\\u0364", "\\u0365", "\\u0366", "\\u0367", "\\u0368", "\\u0369", "\\u036A", "\\u036B", "\\u036C",
      "\\u036D", "\\u036E", "\\u036F", "\\u0374", "\\u0375", "\\u037A", "΄", "΅", "·", "҃",
      "҄", "҅", "҆", "҇", "҈", "҉", "\\u0559", "\\u055F", "֑", "֒",
      "֓", "֔", "֕", "֖", "֗", "֘", "֙", "֚", "֛", "֜",
      "֝", "֞", "֟", "֠", "֡", "֢", "֣", "֤", "֥", "֦",
      "֧", "֨", "֩", "֪", "֫", "֬", "֭", "֮", "֯", "ְ",
      "ֱ", "ֲ", "ֳ", "ִ", "ֵ", "ֶ", "ַ", "ָ", "ֹ", "ֺ",
      "ֻ", "ּ", "ֽ", "ֿ", "ׁ", "ׂ", "ׄ", "ׅ", "ׇ", "״",
      "\\u0600", "\\u0601", "\\u0602", "\\u0603", "\\u0604", "\\u0605", "\\u0610", "\\u0611", "\\u0612", "\\u0613",
      "\\u0614", "\\u0615", "\\u0616", "\\u0617", "\\u0618", "\\u0619", "\\u061A", "\\u061C", "\\u0640", "\\u064B",
      "\\u064C", "\\u064D", "\\u064E", "\\u064F", "\\u0650", "\\u0651", "\\u0652", "\\u0653", "\\u0654", "\\u0655",
      "\\u0656", "\\u0657", "\\u0658", "\\u0659", "\\u065A", "\\u065B", "\\u065C", "\\u065D", "\\u065E", "\\u065F",
      "\\u0670", "ۖ", "ۗ", "ۘ", "ۙ", "ۚ", "ۛ", "ۜ", "۝", "۟",
      "۠", "ۡ", "ۢ", "ۣ", "ۤ", "ۥ", "ۦ", "ۧ", "ۨ", "۪",
      "۫", "۬", "ۭ", "\\u070F", "\\u0711", "\\u0730", "\\u0731", "\\u0732", "\\u0733", "\\u0734",
      "\\u0735", "\\u0736", "\\u0737", "\\u0738", "\\u0739", "\\u073A", "\\u073B", "\\u073C", "\\u073D", "\\u073E",
      "\\u073F", "\\u0740", "\\u0741", "\\u0742", "\\u0743", "\\u0744", "\\u0745", "\\u0746", "\\u0747", "\\u0748",
      "\\u0749", "\\u074A", "ަ", "ާ", "ި", "ީ", "ު", "ޫ", "ެ", "ޭ",
      "ޮ", "ޯ", "ް", "߫", "߬", "߭", "߮", "߯", "߰", "߱",
      "߲", "߳", "ߴ", "ߵ", "ߺ", "߽", "\\u0816", "\\u0817", "\\u0818", "\\u0819",
      "\\u081A", "\\u081B", "\\u081C", "\\u081D", "\\u081E", "\\u081F", "\\u0820", "\\u0821", "\\u0822", "\\u0823",
      "\\u0824", "\\u0825", "\\u0826", "\\u0827", "\\u0828", "\\u0829", "\\u082A", "\\u082B", "\\u082C", "\\u082D",
      "\\u0859", "\\u085A", "\\u085B", "࢈", "࢐", "࢑", "ࢗ", "࢘", "࢙", "࢚",
      "࢛", "࢜", "࢝", "࢞", "࢟", "ࣉ", "࣊", "࣋", "࣌", "࣍",
      "࣎", "࣏", "࣐", "࣑", "࣒", "࣓", "ࣔ", "ࣕ", "ࣖ", "ࣗ",
      "ࣘ", "ࣙ", "ࣚ", "ࣛ", "ࣜ", "ࣝ", "ࣞ", "ࣟ", "࣠", "࣡",
      "࣢", "ࣣ", "ࣤ", "ࣥ", "ࣦ", "ࣧ", "ࣨ", "ࣩ", "࣪", "࣫",
      "࣬", "࣭", "࣮", "࣯", "ࣰ", "ࣱ", "ࣲ", "ࣳ", "ࣴ", "ࣵ",
      "ࣶ", "ࣷ", "ࣸ", "ࣹ", "ࣺ", "ࣻ", "ࣼ", "ࣽ", "ࣾ", "ࣿ",
      "\\u0900", "\\u0901", "\\u0902", "\\u093A", "\\u093C", "\\u0941", "\\u0942", "\\u0943", "\\u0944", "\\u0945",
      "\\u0946", "\\u0947", "\\u0948", "\\u094D", "\\u0951", "\\u0952", "\\u0953", "\\u0954", "\\u0955", "\\u0956",
      "\\u0957", "\\u0962", "\\u0963", "\\u0971", "ঁ", "়", "ু", "ূ", "ৃ", "ৄ",
      "্", "ৢ", "ৣ", "৾", "\\u0A01", "\\u0A02", "\\u0A3C", "\\u0A41", "\\u0A42", "\\u0A47",
      "\\u0A48", "\\u0A4B", "\\u0A4C", "\\u0A4D", "\\u0A51", "\\u0A70", "\\u0A71", "\\u0A75", "ઁ", "ં",
      "઼", "ુ", "ૂ", "ૃ", "ૄ", "ૅ", "ે", "ૈ", "્", "ૢ",
      "ૣ", "ૺ", "ૻ", "ૼ", "૽", "૾", "૿", "\\u0B01", "\\u0B3C", "\\u0B3F",
      "\\u0B41", "\\u0B42", "\\u0B43", "\\u0B44", "\\u0B4D", "\\u0B55", "\\u0B56", "\\u0B62", "\\u0B63", "ஂ",
      "ீ", "்", "\\u0C00", "\\u0C04", "\\u0C3C", "\\u0C3E", "\\u0C3F", "\\u0C40", "\\u0C46", "\\u0C47",
      "\\u0C48", "\\u0C4A", "\\u0C4B", "\\u0C4C", "\\u0C4D", "\\u0C55", "\\u0C56", "\\u0C62", "\\u0C63", "ಁ",
      "಼", "ಿ", "ೆ", "ೌ", "್", "ೢ", "ೣ", "\\u0D00", "\\u0D01", "\\u0D3B",
      "\\u0D3C", "\\u0D41", "\\u0D42", "\\u0D43", "\\u0D44", "\\u0D4D", "\\u0D62", "\\u0D63", "ඁ", "්",
      "ි", "ී", "ු", "ූ", "\\u0E31", "\\u0E34", "\\u0E35", "\\u0E36", "\\u0E37", "\\u0E38",
      "\\u0E39", "\\u0E3A", "\\u0E46", "\\u0E47", "\\u0E48", "\\u0E49", "\\u0E4A", "\\u0E4B", "\\u0E4C", "\\u0E4D",
      "\\u0E4E", "ັ", "ິ", "ີ", "ຶ", "ື", "ຸ", "ູ", "຺", "ົ",
      "ຼ", "ໆ", "່", "້", "໊", "໋", "໌", "ໍ", "໎", "\\u0F18",
      "\\u0F19", "\\u0F35", "\\u0F37", "\\u0F39", "\\u0F71", "\\u0F72", "\\u0F73", "\\u0F74", "\\u0F75", "\\u0F76",
      "\\u0F77", "\\u0F78", "\\u0F79", "\\u0F7A", "\\u0F7B", "\\u0F7C", "\\u0F7D", "\\u0F7E", "ྀ", "ཱྀ",
      "ྂ", "ྃ", "྄", "྆", "྇", "ྍ", "ྎ", "ྏ", "ྐ", "ྑ",
      "ྒ", "ྒྷ", "ྔ", "ྕ", "ྖ", "ྗ", "ྙ", "ྚ", "ྛ", "ྜ",
      "ྜྷ", "ྞ", "ྟ", "ྠ", "ྡ", "ྡྷ", "ྣ", "ྤ", "ྥ", "ྦ",
      "ྦྷ", "ྨ", "ྩ", "ྪ", "ྫ", "ྫྷ", "ྭ", "ྮ", "ྯ", "ྰ",
      "ྱ", "ྲ", "ླ", "ྴ", "ྵ", "ྶ", "ྷ", "ྸ", "ྐྵ", "ྺ",
      "ྻ", "ྼ", "࿆", "\\u102D", "\\u102E", "\\u102F", "\\u1030", "\\u1032", "\\u1033", "\\u1034",
      "\\u1035", "\\u1036", "\\u1037", "\\u1039", "\\u103A", "\\u103D", "\\u103E", "\\u1058", "\\u1059", "\\u105E",
      "\\u105F", "\\u1060", "\\u1071", "\\u1072", "\\u1073", "\\u1074", "ႂ", "ႅ", "ႆ", "ႍ",
      "ႝ", "ჼ", "\\u135D", "\\u135E", "\\u135F", "\\u1712", "\\u1713", "\\u1714", "\\u1732", "\\u1733",
      "\\u1752", "\\u1753", "\\u1772", "\\u1773", "឴", "឵", "ិ", "ី", "ឹ", "ឺ",
      "ុ", "ូ", "ួ", "ំ", "៉", "៊", "់", "៌", "៍", "៎",
      "៏", "័", "៑", "្", "៓", "ៗ", "៝", "\\u180B", "\\u180C", "\\u180D",
      "\\u180E", "\\u180F", "\\u1843", "ᢅ", "ᢆ", "ᢩ", "\\u1920", "\\u1921", "\\u1922", "\\u1927",
      "\\u1928", "\\u1932", "\\u1939", "\\u193A", "\\u193B", "\\u1A17", "\\u1A18", "\\u1A1B", "\\u1A56", "\\u1A58",
      "\\u1A59", "\\u1A5A", "\\u1A5B", "\\u1A5C", "\\u1A5D", "\\u1A5E", "\\u1A60", "\\u1A62", "\\u1A65", "\\u1A66",
      "\\u1A67", "\\u1A68", "\\u1A69", "\\u1A6A", "\\u1A6B", "\\u1A6C", "\\u1A73", "\\u1A74", "\\u1A75", "\\u1A76",
      "\\u1A77", "\\u1A78", "\\u1A79", "\\u1A7A", "\\u1A7B", "\\u1A7C", "\\u1A7F", "ᪧ", "᪰", "᪱",
      "᪲", "᪳", "᪴", "᪵", "᪶", "᪷", "᪸", "᪹", "᪺", "᪻",
      "᪼", "᪽", "᪾", "ᪿ", "ᫀ", "᫁", "᫂", "᫃", "᫄", "᫅",
      "᫆", "᫇", "᫈", "᫉", "᫊", "᫋", "ᫌ", "ᫍ", "ᫎ", "᫏",
      "᫐", "᫑", "᫒", "᫓", "᫔", "᫕", "᫖", "᫗", "᫘", "᫙",
      "᫚", "᫛", "᫜", "᫝", "᫠", "᫡", "᫢", "᫣", "᫤", "᫥",
      "᫦", "᫧", "᫨", "᫩", "᫪", "᫫", "\\u1B00", "\\u1B01", "\\u1B02", "\\u1B03",
      "\\u1B34", "\\u1B36", "\\u1B37", "\\u1B38", "\\u1B39", "\\u1B3A", "\\u1B3C", "\\u1B42", "\\u1B6B", "\\u1B6C",
      "\\u1B6D", "\\u1B6E", "\\u1B6F", "\\u1B70", "\\u1B71", "\\u1B72", "\\u1B73", "ᮀ", "ᮁ", "ᮢ",
      "ᮣ", "ᮤ", "ᮥ", "ᮨ", "ᮩ", "᮫", "ᮬ", "ᮭ", "᯦", "ᯨ",
      "ᯩ", "ᯭ", "ᯯ", "ᯰ", "ᯱ", "\\u1C2C", "\\u1C2D", "\\u1C2E", "\\u1C2F", "\\u1C30",
      "\\u1C31", "\\u1C32", "\\u1C33", "\\u1C36", "\\u1C37", "\\u1C78", "\\u1C79", "\\u1C7A", "\\u1C7B", "\\u1C7C",
      "\\u1C7D", "᳐", "᳑", "᳒", "᳔", "᳕", "᳖", "᳗", "᳘", "᳙",
      "᳚", "᳛", "᳜", "᳝", "᳞", "᳟", "᳠", "᳢", "᳣", "᳤",
      "᳥", "᳦", "᳧", "᳨", "᳭", "᳴", "᳸", "᳹", "\\u1D2C", "\\u1D2D",
      "\\u1D2E", "\\u1D2F", "\\u1D30", "\\u1D31", "\\u1D32", "\\u1D33", "\\u1D34", "\\u1D35", "\\u1D36", "\\u1D37",
      "\\u1D38", "\\u1D39", "\\u1D3A", "\\u1D3B", "\\u1D3C", "\\u1D3D", "\\u1D3E", "\\u1D3F", "\\u1D40", "\\u1D41",
      "\\u1D42", "\\u1D43", "\\u1D44", "\\u1D45", "\\u1D46", "\\u1D47", "\\u1D48", "\\u1D49", "\\u1D4A", "\\u1D4B",
      "\\u1D4C", "\\u1D4D", "\\u1D4E", "\\u1D4F", "\\u1D50", "\\u1D51", "\\u1D52", "\\u1D53", "\\u1D54", "\\u1D55",
      "\\u1D56", "\\u1D57", "\\u1D58", "\\u1D59", "\\u1D5A", "\\u1D5B", "\\u1D5C", "\\u1D5D", "\\u1D5E", "\\u1D5F",
      "\\u1D60", "\\u1D61", "\\u1D62", "\\u1D63", "\\u1D64", "\\u1D65", "\\u1D66", "\\u1D67", "\\u1D68", "\\u1D69",
      "\\u1D6A", "\\u1D78", "ᶛ", "ᶜ", "ᶝ", "ᶞ", "ᶟ", "ᶠ", "ᶡ", "ᶢ",
      "ᶣ", "ᶤ", "ᶥ", "ᶦ", "ᶧ", "ᶨ", "ᶩ", "ᶪ", "ᶫ", "ᶬ",
      "ᶭ", "ᶮ", "ᶯ", "ᶰ", "ᶱ", "ᶲ", "ᶳ", "ᶴ", "ᶵ", "ᶶ",
      "ᶷ", "ᶸ", "ᶹ", "ᶺ", "ᶻ", "ᶼ", "ᶽ", "ᶾ", "ᶿ", "᷀",
      "᷁", "᷂", "᷃", "᷄", "᷅", "᷆", "᷇", "᷈", "᷉", "᷊",
      "᷋", "᷌", "᷍", "᷎", "᷏", "᷐", "᷑", "᷒", "ᷓ", "ᷔ",
      "ᷕ", "ᷖ", "ᷗ", "ᷘ", "ᷙ", "ᷚ", "ᷛ", "ᷜ", "ᷝ", "ᷞ",
      "ᷟ", "ᷠ", "ᷡ", "ᷢ", "ᷣ", "ᷤ", "ᷥ", "ᷦ", "ᷧ", "ᷨ",
      "ᷩ", "ᷪ", "ᷫ", "ᷬ", "ᷭ", "ᷮ", "ᷯ", "ᷰ", "ᷱ", "ᷲ",
      "ᷳ", "ᷴ", "᷵", "᷶", "᷷", "᷸", "᷹", "᷺", "᷻", "᷼",
      "᷽", "᷾", "᷿", "᾽", "᾿", "῀", "῁", "῍", "῎", "῏",
      "῝", "῞", "῟", "῭", "΅", "`", "´", "῾", "\\u200B", "\\u200C",
      "\\u200D", "\\u200E", "\\u200F", "\\u2018", "\\u2019", "\\u2024", "\\u2027", "\\u202A", "\\u202B", "\\u202C",
      "\\u202D", "\\u202E", "\\u2060", "\\u2061", "\\u2062", "\\u2063", "\\u2064", "\\u2066", "\\u2067", "\\u2068",
      "\\u2069", "\\u206A", "\\u206B", "\\u206C", "\\u206D", "\\u206E", "\\u206F", "\\u2071", "\\u207F", "ₐ",
      "ₑ", "ₒ", "ₓ", "ₔ", "ₕ", "ₖ", "ₗ", "ₘ", "ₙ", "ₚ",
      "ₛ", "ₜ", "⃐", "⃑", "⃒", "⃓", "⃔", "⃕", "⃖", "⃗",
      "⃘", "⃙", "⃚", "⃛", "⃜", "⃝", "⃞", "⃟", "⃠", "⃡",
      "⃢", "⃣", "⃤", "⃥", "⃦", "⃧", "⃨", "⃩", "⃪", "⃫",
      "⃬", "⃭", "⃮", "⃯", "⃰", "\\u2C7C", "\\u2C7D", "⳯", "⳰", "⳱",
      "\\u2D6F", "\\u2D7F", "ⷠ", "ⷡ", "ⷢ", "ⷣ", "ⷤ", "ⷥ", "ⷦ", "ⷧ",
      "ⷨ", "ⷩ", "ⷪ", "ⷫ", "ⷬ", "ⷭ", "ⷮ", "ⷯ", "ⷰ", "ⷱ",
      "ⷲ", "ⷳ", "ⷴ", "ⷵ", "ⷶ", "ⷷ", "ⷸ", "ⷹ", "ⷺ", "ⷻ",
      "ⷼ", "ⷽ", "ⷾ", "ⷿ", "\\u2E2F", "\\u3005", "\\u302A", "\\u302B", "\\u302C", "\\u302D",
      "\\u3031", "\\u3032", "\\u3033", "\\u3034", "\\u3035", "\\u303B", "゙", "゚", "゛", "゜",
      "ゝ", "ゞ", "ー", "ヽ", "ヾ", "\\uA015", "ꓸ", "ꓹ", "ꓺ", "ꓻ",
      "ꓼ", "ꓽ", "\\uA60C", "\\uA66F", "\\uA670", "\\uA671", "\\uA672", "\\uA674", "\\uA675", "\\uA676",
      "\\uA677", "\\uA678", "\\uA679", "\\uA67A", "\\uA67B", "\\uA67C", "\\uA67D", "\\uA67F", "ꚜ", "ꚝ",
      "ꚞ", "ꚟ", "꛰", "꛱", "\\uA700", "\\uA701", "\\uA702", "\\uA703", "\\uA704", "\\uA705",
      "\\uA706", "\\uA707", "\\uA708", "\\uA709", "\\uA70A", "\\uA70B", "\\uA70C", "\\uA70D", "\\uA70E", "\\uA70F",
      "\\uA710", "\\uA711", "\\uA712", "\\uA713", "\\uA714", "\\uA715", "\\uA716", "\\uA717", "\\uA718", "\\uA719",
      "\\uA71A", "\\uA71B", "\\uA71C", "\\uA71D", "\\uA71E", "\\uA71F", "\\uA720", "\\uA721", "\\uA770", "ꞈ",
      "꞉", "꞊", "꟱", "ꟲ", "ꟳ", "ꟴ", "ꟸ", "ꟹ", "\\uA802", "\\uA806",
      "\\uA80B", "\\uA825", "\\uA826", "\\uA82C", "꣄", "ꣅ", "꣠", "꣡", "꣢", "꣣",
      "꣤", "꣥", "꣦", "꣧", "꣨", "꣩", "꣪", "꣫", "꣬", "꣭",
      "꣮", "꣯", "꣰", "꣱", "ꣿ", "\\uA926", "\\uA927", "\\uA928", "\\uA929", "\\uA92A",
      "\\uA92B", "\\uA92C", "\\uA92D", "\\uA947", "\\uA948", "\\uA949", "\\uA94A", "\\uA94B", "\\uA94C", "\\uA94D",
      "\\uA94E", "\\uA94F", "\\uA950", "\\uA951", "ꦀ", "ꦁ", "ꦂ", "꦳", "ꦶ", "ꦷ",
      "ꦸ", "ꦹ", "ꦼ", "ꦽ", "ꧏ", "ꧥ", "ꧦ", "\\uAA29", "\\uAA2A", "\\uAA2B",
      "\\uAA2C", "\\uAA2D", "\\uAA2E", "\\uAA31", "\\uAA32", "\\uAA35", "\\uAA36", "\\uAA43", "\\uAA4C", "\\uAA70",
      "\\uAA7C", "ꪰ", "ꪲ", "ꪳ", "ꪴ", "ꪷ", "ꪸ", "ꪾ", "꪿", "꫁",
      "ꫝ", "ꫬ", "ꫭ", "ꫳ", "ꫴ", "꫶", "\\uAB5B", "\\uAB5C", "\\uAB5D", "\\uAB5E",
      "\\uAB5F", "\\uAB69", "\\uAB6A", "\\uAB6B", "ꯥ", "ꯨ", "꯭", "\\uFB1E", "﮲", "﮳",
      "﮴", "﮵", "﮶", "﮷", "﮸", "﮹", "﮺", "﮻", "﮼", "﮽",
      "﮾", "﮿", "﯀", "﯁", "﯂", "\\uFE00", "\\uFE01", "\\uFE02", "\\uFE03", "\\uFE04",
      "\\uFE05", "\\uFE06", "\\uFE07", "\\uFE08", "\\uFE09", "\\uFE0A", "\\uFE0B", "\\uFE0C", "\\uFE0D", "\\uFE0E",
      "\\uFE0F", "\\uFE13", "\\uFE20", "\\uFE21", "\\uFE22", "\\uFE23", "\\uFE24", "\\uFE25", "\\uFE26", "\\uFE27",
      "\\uFE28", "\\uFE29", "\\uFE2A", "\\uFE2B", "\\uFE2C", "\\uFE2D", "\\uFE2E", "\\uFE2F", "\\uFE52", "\\uFE55",
      "﻿", "\\uFF07", "\\uFF0E", "\\uFF1A", "\\uFF3E", "\\uFF40", "\\uFF70", "ﾞ", "ﾟ", "￣",
      "￹", "￺", "￻" }

(* Final_Sigma: the sigma at k follows a cased letter and no cased letter  *)
(* follows it, case-ignorable characters between them skipped              *)
FinalSigma(s, k) ==
    LET before == {j \in 1..(k - 1) : s[j] \notin CaseIgnorable}
        after == {j \in (k + 1)..Len(s) : s[j] \notin CaseIgnorable}
    IN /\ before # {}
       /\ s[CHOOSE j \in before : \A m \in before : m <= j] \in Cased
       /\ \/ after = {}
          \/ s[CHOOSE j \in after : \A m \in after : j <= m] \notin Cased

(* the code units from the k-th of s on, in lower case: a final sigma      *)
(* becomes U+03C2, U+0130 becomes i and U+0307, any other its LowerChar    *)
RECURSIVE ToLowerCaseFrom(_, _)
ToLowerCaseFrom(s, k) ==
    IF k > Len(s) THEN <<>>
    ELSE (IF s[k] = "Σ" /\ FinalSigma(s, k) THEN <<"ς">>
          ELSE IF s[k] = "\\u0130" THEN <<"i", "\\u0307">>
          ELSE <<LowerChar(s[k])>>) \o ToLowerCaseFrom(s, k + 1)

ToLowerCase(s) == ToLowerCaseFrom(s, 1)

Trim(s) ==
    LET keep == {k \in 1..Len(s) : s[k] \notin WhiteSpace}
    IN IF keep = {} THEN <<>>
       ELSE LET lo == CHOOSE k \in keep : \A m \in keep : k <= m
                hi == CHOOSE k \in keep : \A m \in keep : m <= k
            IN SubSeq(s, lo, hi)

IsLetter(c) == c \in Range(UpperLetters) \cup Range(LowerLetters)
IsAlnum(c) == IsLetter(c) \/ c \in Digits

(* positions of the dots of s, and the labels between them *)
DotsOf(s) == {k \in 1..Len(s) : s[k] = "."}

LastDot(s) == CHOOSE k \in DotsOf(s) : \A m \in DotsOf(s) : m <= k

(* [a-zA-Z0-9]([a-zA-Z0-9\-]{0,61}[a-zA-Z0-9])? *)
IsLabel(l) ==
    /\ Len(l) >= 1
    /\ Len(l) <= 63
    /\ IsAlnum(l[1])
    /\ IsAlnum(l[Len(l)])
    /\ \A k \in 1..Len(l) : IsAlnum(l[k]) \/ l[k] = "-"

(* the labels of s[1..hi], each of which ends with the dot at its end *)
LabelsBefore(s, hi) ==
    LET dots == {k \in DotsOf(s) : k <= hi}
        prev(k) == IF \E m \in dots : m < k
                   THEN CHOOSE m \in dots : m < k /\ \A q \in dots : q < k => q <= m
                   ELSE 0
    IN {SubSeq(s, prev(k) + 1, k - 1) : k \in dots}

validateDomain(domain) ==
    /\ DotsOf(domain) # {}
    /\ LET d == LastDot(domain)
           tld == SubSeq(domain, d + 1, Len(domain))
       IN /\ Len(tld) >= 2
          /\ \A k \in 1..Len(tld) : IsLetter(tld[k])
          /\ \A l \in LabelsBefore(domain, d) : IsLabel(l)
    /\ Len(domain) <= 253

---------------------------------------------------------------------------
(* Numbers of the source are IEEE-754 doubles.  Times and counts are       *)
(* integers, which doubles hold exactly; state.tokens, refillRate and      *)
(* tokensToAdd of the token bucket are fractions, and the model computes   *)
(* them as the source does: exactly, then rounded to the nearest double    *)
(* (53 significant bits, ties to even).  A double is [neg, m, e], the      *)
(* number m * 2^e or its negative, with 2^52 <= m < 2^53, or m = 0 and     *)
(* e = 0.  m is a natural number of any size, the little-endian sequence   *)
(* of its digits in base 2^15 without leading zeros.  The numbers of the   *)
(* model stay far from the largest and the smallest doubles.               *)

Base == 2^15

RECURSIVE BigOfInt(_)
BigOfInt(n) == IF n = 0 THEN <<>> ELSE <<n % Base>> \o BigOfInt(n \div Base)

RECURSIVE BigToInt(_)
BigToInt(x) == IF x = <<>> THEN 0 ELSE x[1] + Base * BigToInt(Tail(x))

RECURSIVE BigTrim(_)
BigTrim(x) ==
    IF x # <<>> /\ x[Len(x)] = 0 THEN BigTrim(SubSeq(x, 1, Len(x) - 1)) ELSE x

(* the number whose k-th digit is x[k], any x[k] >= 0 below 2^30 *)
RECURSIVE BigCarry(_, _)
BigCarry(x, carry) ==
    IF x = <<>> THEN BigOfInt(carry)
    ELSE <<(x[1] + carry) % Base>> \o BigCarry(Tail(x), (x[1] + carry) \div Base)

BigDigit(x, k) == IF k <= Len(x) THEN x[k] ELSE 0

BigAdd(x, y) ==
    BigCarry([k \in 1..(IF Len(x) < Len(y) THEN Len(y) ELSE Len(x)) |->
                 BigDigit(x, k) + BigDigit(y, k)], 0)

(* x - y, for x >= y *)
RECURSIVE BigBorrow(_, _, _, _)
BigBorrow(x, y, k, borrow) ==
    IF k > Len(x) THEN <<>>
    ELSE LET d == x[k] - BigDigit(y, k) - borrow
         IN IF d < 0 THEN <<d + Base>> \o BigBorrow(x, y, k + 1, 1)
            ELSE <<d>> \o BigBorrow(x, y, k + 1, 0)

BigSub(x, y) == BigTrim(BigBorrow(x, y, 1, 0))

BigMulDigit(x, d) == BigTrim(BigCarry([k \in 1..Len(x) |-> x[k] * d], 0))

RECURSIVE BigMul(_, _)
BigMul(x, y) ==
    IF y = <<>> \/ x = <<>> THEN <<>>
    ELSE BigAdd(BigMulDigit(x, y[1]), BigTrim(<<0>> \o BigMul(x, Tail(y))))

(* the quotient and the remainder of x by d, 0 < d < 2^16 *)
RECURSIVE BigDivDigit(_, _, _)
BigDivDigit(x, d, r) ==
    IF x = <<>> THEN <<>>
    ELSE LET cur == r * Base + x[Len(x)]
         IN BigDivDigit(SubSeq(x, 1, Len(x) - 1), d, cur % d) \o <<cur \div d>>

RECURSIVE BigModDigit(_, _, _)
BigModDigit(x, d, r) ==
    IF x = <<>> THEN r
    ELSE BigModDigit(SubSeq(x, 1, Len(x) - 1), d, (r * Base + x[Len(x)]) % d)

(* x * 2^n and the integer part of x / 2^n *)
BigShl(x, n) ==
    IF x = <<>> THEN <<>>
    ELSE [k \in 1..(n \div 15) |-> 0] \o BigMulDigit(x, 2^(n % 15))

BigShr(x, n) ==
    IF n \div 15 >= Len(x) THEN <<>>
    ELSE BigTrim(BigDivDigit(SubSeq(x, n \div 15 + 1, Len(x)), 2^(n % 15), 0))

BigLess(x, y) ==
    IF Len(x) # Len(y) THEN Len(x) < Len(y)
    ELSE \E k \in 1..Len(x) :
            /\ x[k] < y[k]
            /\ \A j \in (k + 1)..Len(x) : x[j] = y[j]

RECURSIVE BitLen(_)
BitLen(n) == IF n = 0 THEN 0 ELSE 1 + BitLen(n \div 2)

BigBitLen(x) == IF x = <<>> THEN 0 ELSE 15 * (Len(x) - 1) + BitLen(x[Len(x)])

(* a number of more than 53 bits rounded to the nearest double, ties to    *)
(* even: q is its first 53 bits and r the extra bits it has                *)
DblRoundUp(q, r, extra) ==
    LET up == \/ BigLess(BigShl(<<1>>, extra), BigShl(r, 1))
              \/ BigShl(<<1>>, extra) = BigShl(r, 1) /\ q[1] % 2 = 1
    IN IF up THEN BigAdd(q, <<1>>) ELSE q

DblNormal(m, e) ==
    IF BigBitLen(m) > 53
    THEN [neg |-> FALSE, m |-> BigShr(m, 1), e |-> e + 1]
    ELSE [neg |-> FALSE, m |-> m, e |-> e]

DblCut(n, q, e, extra) ==
    DblNormal(DblRoundUp(q, BigSub(n, BigShl(q, extra)), extra), e + extra)

(* the double nearest to n * 2^e *)
DblRound(n, e) ==
    IF n = <<>> THEN [neg |-> FALSE, m |-> <<>>, e |-> 0]
    ELSE IF BigBitLen(n) <= 53
    THEN [neg |-> FALSE, m |-> BigShl(n, 53 - BigBitLen(n)), e |-> e - (53 - BigBitLen(n))]
    ELSE DblCut(n, BigShr(n, BigBitLen(n) - 53), e, BigBitLen(n) - 53)

DblSigned(x, neg) == IF x.m = <<>> THEN x ELSE [x EXCEPT !.neg = neg]

(* an integer of the model has fewer than 53 bits and is a double as it is *)
DblOfNat(n, neg) ==
    IF n = 0 THEN [neg |-> FALSE, m |-> <<>>, e |-> 0]
    ELSE [neg |-> neg, m |-> BigShl(BigOfInt(n), 53 - BitLen(n)), e |-> BitLen(n) - 53]

DblOfInt(n) == IF n < 0 THEN DblOfNat(-n, TRUE) ELSE DblOfNat(n, FALSE)

(* x.m brought to the smaller of the exponents of x and y *)
DblAligned(x, y) == BigShl(x.m, x.e - (IF x.e < y.e THEN x.e ELSE y.e))

(* the sum and the difference of the sizes of x and y, the latter for x    *)
(* not smaller than y                                                      *)
DblSumOfSizes(x, y) ==
    DblRound(BigAdd(DblAligned(x, y), DblAligned(y, x)), IF x.e < y.e THEN x.e ELSE y.e)

DblDifferenceOfSizes(x, y) ==
    DblRound(BigSub(DblAligned(x, y), DblAligned(y, x)), IF x.e < y.e THEN x.e ELSE y.e)

DblAdd(x, y) ==
    IF x.neg = y.neg THEN DblSigned(DblSumOfSizes(x, y), x.neg)
    ELSE IF BigLess(DblAligned(x, y), DblAligned(y, x))
    THEN DblSigned(DblDifferenceOfSizes(y, x), y.neg)
    ELSE DblSigned(DblDifferenceOfSizes(x, y), x.neg)

DblSub(x, y) == DblAdd(x, DblSigned(y, ~y.neg))

DblMul(x, y) == DblSigned(DblRound(BigMul(x.m, y.m), x.e + y.e), x.neg # y.neg)

(* a / b for integers a >= 0 and 0 < b < 2^16: 75 bits of the quotient and *)
(* one more that tells whether the division left a remainder               *)
DblDivInt(a, b) ==
    DblRound(BigAdd(BigShl(BigDivDigit(BigShl(BigOfInt(a), 75), b, 0), 1),
                    IF BigModDigit(BigShl(BigOfInt(a), 75), b, 0) = 0 THEN <<>> ELSE <<1>>),
             -76)

DblLess(x, y) ==
    IF x.neg # y.neg THEN x.neg
    ELSE IF x.neg THEN BigLess(DblAligned(y, x), DblAligned(x, y))
    ELSE BigLess(DblAligned(x, y), DblAligned(y, x))

(* Math.min(x, y) *)
DblMin(x, y) == IF DblLess(y, x) THEN y ELSE x

(* Math.floor(x) *)
DblFloor(x) ==
    IF x.e >= 0 THEN (IF x.neg THEN -1 ELSE 1) * BigToInt(BigShl(x.m, x.e))
    ELSE IF x.neg
    THEN -BigToInt(BigShr(x.m, -x.e))
             - (IF BigShl(BigShr(x.m, -x.e), -x.e) = x.m THEN 0 ELSE 1)
    ELSE BigToInt(BigShr(x.m, -x.e))

---------------------------------------------------------------------------
(* Rate limiter (src/lib/rate-limit.ts)                                    *)

Config(maxRequests, windowMs) == [maxRequests |-> maxRequests, windowMs |-> windowMs]

(* ceil(a / b) for b > 0 *)
CeilDiv(a, b) == IF a >= 0 THEN (a + b - 1) \div b ELSE -((-a) \div b)

getOrCreateLimiterState(ls, limiterId, config, t) ==
    IF limiterId \in DOMAIN ls THEN ls
    ELSE [k \in DOMAIN ls \cup {limiterId} |->
            IF k = limiterId
            THEN [timestamps |-> <<>>,
                  lastRefillTime |-> t,
                  tokens |-> DblOfInt(config.maxRequests),
                  retryCount |-> 0,
                  lastRequestTime |-> 0]
            ELSE ls[k]]

SlidingPrune(timestamps, config, t) ==
    LET windowStart == t - config.windowMs
        InWindow(ts) == ts > windowStart
    IN SelectSeq(timestamps, InWindow)

SlidingLimitExceeded_offByOne(timestamps, config) == Len(timestamps) > config.maxRequests

SlidingLimitExceeded(timestamps, config) == Len(timestamps) >= config.maxRequests

SlidingDenied_floor(timestamps, config, t) ==
    LET oldestTimestamp == timestamps[1]
        resetTime == oldestTimestamp + config.windowMs
    IN [allowed |-> FALSE, remaining |-> 0, resetTime |-> resetTime,
        retryAfter |-> (resetTime - t) \div 1000]

SlidingDenied(timestamps, config, t) ==
    LET oldestTimestamp == timestamps[1]
        resetTime == oldestTimestamp + config.windowMs
    IN [allowed |-> FALSE, remaining |-> 0, resetTime |-> resetTime,
        retryAfter |-> CeilDiv(resetTime - t, 1000)]

(* isAllowed(): the new limiter map and the returned RateLimitResult *)
SlidingIsAllowed(ls, limiterId, config, t) ==
    LET ls1 == getOrCreateLimiterState(ls, limiterId, config, t)
        pruned == SlidingPrune(ls1[limiterId].timestamps, config, t)
    IN IF SlidingLimitExceeded(pruned, config)
       THEN [state |-> [ls1 EXCEPT ![limiterId].timestamps = pruned],
             result |-> SlidingDenied(pruned, config, t)]
       ELSE LET pushed == Append(pruned, t)
                remaining == config.maxRequests - Len(pushed)
            IN [state |-> [ls1 EXCEPT ![limiterId].timestamps = pushed],
                result |-> [allowed |-> TRUE,
                            remaining |-> IF remaining > 0 THEN remaining ELSE 0,
                            resetTime |-> t + config.windowMs]]

SlidingGetStatus_recording(ls, limiterId, config, t) ==
    SlidingIsAllowed(ls, limiterId, config, t)

(* getStatus(): creates the state lazily, stores nothing else *)
SlidingGetStatus(ls, limiterId, config, t) ==
    LET ls1 == getOrCreateLimiterState(ls, limiterId, config, t)
        validTimestamps == SlidingPrune(ls1[limiterId].timestamps, config, t)
    IN IF SlidingLimitExceeded(validTimestamps, config)
       THEN [state |-> ls1, result |-> SlidingDenied(validTimestamps, config, t)]
       ELSE [state |-> ls1,
             result |-> [allowed |-> TRUE,
                         remaining |-> config.maxRequests - Len(validTimestamps),
                         resetTime |-> t + config.windowMs]]

SlidingReset_keepsTimestamps(ls, limiterId, config, t) ==
    getOrCreateLimiterState(ls, limiterId, config, t)

SlidingReset(ls, limiterId, config, t) ==
    LET ls1 == getOrCreateLimiterState(ls, limiterId, config, t)
    IN [ls1 EXCEPT ![limiterId].timestamps = <<>>]

SlidingGetRequestCount(ls, limiterId, config, t) ==
    LET ls1 == getOrCreateLimiterState(ls, limiterId, config, t)
    IN [state |-> ls1, result |-> Len(SlidingPrune(ls1[limiterId].timestamps, config, t))]

(* Token bucket.  state.tokens, refillRate and tokensToAdd are doubles.    *)
Capacity(config) == DblOfInt(config.maxRequests)

refillRate(config) == DblDivInt(config.maxRequests, config.windowMs)

(* tokensToAdd of refillTokens(), timePassed after the last refill *)
tokensToAdd(config, timePassed) == DblMul(DblOfInt(timePassed), refillRate(config))

refillTokens_uncapped(ls, limiterId, config, t) ==
    LET ls1 == getOrCreateLimiterState(ls, limiterId, config, t)
    IN [ls1 EXCEPT ![limiterId].tokens =
                       DblAdd(@, tokensToAdd(config, t - ls1[limiterId].lastRefillTime)),
                   ![limiterId].lastRefillTime = t]

refillTokens(ls, limiterId, config, t) ==
    LET ls1 == getOrCreateLimiterState(ls, limiterId, config, t)
    IN [ls1 EXCEPT ![limiterId].tokens =
                       DblMin(Capacity(config),
                              DblAdd(@, tokensToAdd(config,
                                                    t - ls1[limiterId].lastRefillTime))),
                   ![limiterId].lastRefillTime = t]

TokenConsume_keepsLastToken(ls2, limiterId, config, t) ==
    IF ~DblLess(DblOfInt(1), ls2[limiterId].tokens)
    THEN [state |-> ls2,
          result |-> [allowed |-> FALSE, remaining |-> 0,
                      resetTime |-> ls2[limiterId].lastRefillTime + config.windowMs,
                      retryAfter |-> CeilDiv(ls2[limiterId].lastRefillTime
                                                 + config.windowMs - t, 1000)]]
    ELSE [state |-> [ls2 EXCEPT ![limiterId].tokens = DblSub(@, DblOfInt(1))],
          result |-> [allowed |-> TRUE,
                      remaining |-> DblFloor(DblSub(ls2[limiterId].tokens, DblOfInt(1))),
                      resetTime |-> ls2[limiterId].lastRefillTime + config.windowMs]]

(* lines 184-202: ls2 is the limiter map after refillTokens() *)
TokenConsume(ls2, limiterId, config, t) ==
    IF DblLess(ls2[limiterId].tokens, DblOfInt(1))
    THEN [state |-> ls2,
          result |-> [allowed |-> FALSE, remaining |-> 0,
                      resetTime |-> ls2[limiterId].lastRefillTime + config.windowMs,
                      retryAfter |-> CeilDiv(ls2[limiterId].lastRefillTime
                                                 + config.windowMs - t, 1000)]]
    ELSE [state |-> [ls2 EXCEPT ![limiterId].tokens = DblSub(@, DblOfInt(1))],
          result |-> [allowed |-> TRUE,
                      remaining |-> DblFloor(DblSub(ls2[limiterId].tokens, DblOfInt(1))),
                      resetTime |-> ls2[limiterId].lastRefillTime + config.windowMs]]

(* isAllowed() of the token bucket *)
TokenIsAllowed(ls, limiterId, config, t) ==
    TokenConsume(refillTokens(ls, limiterId, config, t), limiterId, config, t)

(* lines 212-221: ls2 is the limiter map after refillTokens() *)
TokenPeek(ls2, limiterId, config, t) ==
    IF ~DblLess(ls2[limiterId].tokens, DblOfInt(1))
    THEN [state |-> ls2,
          result |-> [allowed |-> TRUE,
                      remaining |-> DblFloor(ls2[limiterId].tokens),
                      resetTime |-> ls2[limiterId].lastRefillTime + config.windowMs]]
    ELSE [state |-> ls2,
          result |-> [allowed |-> FALSE,
                      remaining |-> DblFloor(ls2[limiterId].tokens),
                      resetTime |-> ls2[limiterId].lastRefillTime + config.windowMs,
                      retryAfter |-> CeilDiv(ls2[limiterId].lastRefillTime
                                                 + config.windowMs - t, 1000)]]

(* getStatus() of the token bucket: it refills, then reads *)
TokenGetStatus(ls, limiterId, config, t) ==
    TokenPeek(refillTokens(ls, limiterId, config, t), limiterId, config, t)

TokenReset_keepTokens(ls, limiterId, config, t) ==
    LET ls1 == getOrCreateLimiterState(ls, limiterId, config, t)
    IN [ls1 EXCEPT ![limiterId].lastRefillTime = t]

(* reset() of the token bucket *)
TokenReset(ls, limiterId, config, t) ==
    LET ls1 == getOrCreateLimiterState(ls, limiterId, config, t)
    IN [ls1 EXCEPT ![limiterId].tokens = Capacity(config),
                   ![limiterId].lastRefillTime = t]

(* createThrottleWithBackoff: its methods get the state with this config *)
ThrottleConfig == Config(1, 1)

RECURSIVE Pow2(_)
Pow2(n) == IF n = 0 THEN 1 ELSE 2 * Pow2(n - 1)

(* getDelayMs() of the throttle; the numbers are integers far below 2^53,  *)
(* on which the arithmetic of doubles is exact                             *)
ThrottleGetDelayMs(ls, limiterId, minDelayMs, maxDelayMs, t) ==
    LET ls1 == getOrCreateLimiterState(ls, limiterId, ThrottleConfig, t)
        timeSinceLastRequest == t - ls1[limiterId].lastRequestTime
        baseDelay == minDelayMs - timeSinceLastRequest
        exponentialDelay == baseDelay * Pow2(ls1[limiterId].retryCount)
    IN [state |-> ls1,
        result |-> IF timeSinceLastRequest < minDelayMs
                   THEN IF exponentialDelay < maxDelayMs THEN exponentialDelay
                        ELSE maxDelayMs
                   ELSE 0]

(* recordRequest() of the throttle *)
ThrottleRecordRequest(ls, limiterId, t) ==
    LET ls1 == getOrCreateLimiterState(ls, limiterId, ThrottleConfig, t)
    IN [ls1 EXCEPT ![limiterId].lastRequestTime = t, ![limiterId].retryCount = 0]

(* recordFailure() of the throttle *)
ThrottleRecordFailure(ls, limiterId, t) ==
    LET ls1 == getOrCreateLimiterState(ls, limiterId, ThrottleConfig, t)
    IN [ls1 EXCEPT ![limiterId].retryCount = @ + 1]

(* reset() of the throttle *)
ThrottleReset(ls, limiterId, t) ==
    LET ls1 == getOrCreateLimiterState(ls, limiterId, ThrottleConfig, t)
    IN [ls1 EXCEPT ![limiterId].lastRequestTime = 0, ![limiterId].retryCount = 0]

(* formatRateLimitError: the message is kept as its format and its numbers *)
formatRateLimitError(result) ==
    LET retryAfterSeconds == IF "retryAfter" \in DOMAIN result THEN result.retryAfter ELSE 0
        minutes == retryAfterSeconds \div 60
        seconds == retryAfterSeconds % 60
    IN IF minutes > 0
       THEN [text |-> "Rate limit exceeded. Try again in %m %s", minutes |-> minutes, seconds |-> seconds]
       ELSE [text |-> "Rate limit exceeded. Try again in %s", minutes |-> 0, seconds |-> seconds]

waitForNextRequest_noWait(delayMs, t) == t

waitForNextRequest(delayMs, t) == IF delayMs > 0 THEN t + delayMs ELSE t

---------------------------------------------------------------------------
(* RDAP registry client (src/lib/gemini.ts, checkDomain)                   *)

Message(text) == [text |-> text, minutes |-> 0, seconds |-> 0]

HttpStatuses == {200, 404, 429, 403, 500, 503, 301}

(* The JSON values the body of a 200 response can hold, as far as lines    *)
(* 199-213 tell them apart.  A member of events is null, a primitive or an *)
(* event object; events is absent, null, an array, or any other value;     *)
(* the body is null, a primitive or an array, or an object.  Besides       *)
(* these, response.json() can reject (the body does not parse) and can     *)
(* stay pending for ever (the body never arrives).                         *)
JsonNull == [t |-> "null", eventAction |-> "undefined", eventDate |-> "undefined"]
JsonPrimitive == [t |-> "primitive", eventAction |-> "undefined", eventDate |-> "undefined"]
Event(action, date) == [t |-> "object", eventAction |-> action, eventDate |-> date]

Events(t, items) == [t |-> t, items |-> items]
Body(t, events, registrar) == [t |-> t, events |-> events, registrar |-> registrar]
EmptyObject == Body("object", Events("absent", <<>>), "absent")

Bodies ==
    { Body("never", Events("absent", <<>>), "absent"),
      Body("reject", Events("absent", <<>>), "absent"),
      Body("null", Events("absent", <<>>), "absent"),
      Body("primitive", Events("absent", <<>>), "absent"),
      EmptyObject,
      Body("object", Events("null", <<>>), "entity"),
      Body("object", Events("other", <<>>), "entity"),
      Body("object", Events("array", <<>>), "null"),
      Body("object", Events("array", <<Event("registration", "d1"),
                                       Event("expiration", "d2")>>), "entity"),
      Body("object", Events("array", <<JsonNull>>), "entity"),
      Body("object", Events("array", <<Event("registration", "d1"), JsonNull>>), "entity"),
      Body("object", Events("array", <<Event("expiration", "d2"),
                                       Event("registration", "d1"), JsonNull>>), "entity"),
      Body("object", Events("array", <<JsonPrimitive,
                                       Event("last changed", "d3")>>), "absent") }

NoBody == Body("none", Events("absent", <<>>), "absent")

NetOutcomes ==
    [kind : {"http"}, status : HttpStatuses \ {200}, body : {NoBody}]
    \cup [kind : {"http"}, status : {200}, body : Bodies]
    \cup [kind : {"AbortError", "fetchError", "otherError"}, status : {0}, body : {NoBody}]

(* The outcomes with which the lookups of the service are ended: the       *)
(* service reads the status of the client's result and nothing else of it, *)
(* so one body stands for each way the read of a 200 response can end      *)
(* (Taken, the generic Error, never).                                      *)
ServiceNetOutcomes ==
    {net \in NetOutcomes :
        net.body \in {NoBody, EmptyObject,
                      Body("null", Events("absent", <<>>), "absent"),
                      Body("never", Events("absent", <<>>), "absent")}}

(* the request ends: anything but a 200 response whose json() stays        *)
(* pending, the timer of the abort having been cleared at line 187         *)
Settles(net) == ~(net.kind = "http" /\ net.status = 200 /\ net.body.t = "never")

(* line 199: await response.json().catch(() => ({})) *)
JsonOrEmpty(body) == IF body.t = "reject" THEN EmptyObject ELSE body

Completion(kind, value) == [kind |-> kind, value |-> value]

(* Array.prototype.find with the callback (e) => e.eventAction === action, *)
(* from member k on, then ?.eventDate: reading eventAction of a null       *)
(* member throws                                                           *)
RECURSIVE FindEventDate(_, _, _)
FindEventDate(items, action, k) ==
    IF k > Len(items) THEN Completion("normal", "undefined")
    ELSE IF items[k].t = "null" THEN Completion("throw", "TypeError")
    ELSE IF items[k].eventAction = action THEN Completion("normal", items[k].eventDate)
    ELSE FindEventDate(items, action, k + 1)

(* data.events?.find((e) => e.eventAction === action)?.eventDate *)
EventDate(data, action) ==
    IF data.t = "null" THEN Completion("throw", "TypeError")
    ELSE IF data.t # "object" THEN Completion("normal", "undefined")
    ELSE IF data.events.t \in {"absent", "null"} THEN Completion("normal", "undefined")
    ELSE IF data.events.t # "array" THEN Completion("throw", "TypeError")
    ELSE FindEventDate(data.events.items, action, 1)

(* lines 200-205: one of the two reads of data.events throws *)
ThrowsOnEvents(data) ==
    \/ EventDate(data, "registration").kind = "throw"
    \/ EventDate(data, "expiration").kind = "throw"

(* data.registrar?.objectClassName *)
RegistrarClass(data) ==
    IF data.t = "object" /\ data.registrar = "entity" THEN "entity" ELSE "undefined"

RdapResult(domain, available, status, error) ==
    [domain |-> domain, available |-> available, status |-> status, error |-> error,
     registrar |-> "undefined", registrationDate |-> "undefined",
     expirationDate |-> "undefined"]

(* lines 198-215: the 200 response, data being what json() came to *)
rdapTaken(cleanDomain, data) ==
    IF ThrowsOnEvents(data)
    THEN RdapResult(cleanDomain, FALSE, "Error", "Failed to check domain availability.")
    ELSE [RdapResult(cleanDomain, FALSE, "Taken", "none") EXCEPT
             !.registrar = RegistrarClass(data),
             !.registrationDate = EventDate(data, "registration").value,
             !.expirationDate = EventDate(data, "expiration").value]

(* checkDomain of the RDAP library for a request that ends with net; its   *)
(* promise stays pending when net never settles                            *)
rdapCheckDomain(domain, net) ==
    LET cleanDomain == Trim(ToLowerCase(domain))
        Failed(msg) == RdapResult(cleanDomain, FALSE, "Error", msg)
    IN IF ~Settles(net)
       THEN RdapResult(cleanDomain, FALSE, "pending", "none")
       ELSE IF net.kind = "http"
       THEN IF net.status = 404
            THEN RdapResult(cleanDomain, TRUE, "Available", "none")
            ELSE IF net.status = 200
            THEN rdapTaken(cleanDomain, JsonOrEmpty(net.body))
            ELSE IF net.status = 429
            THEN Failed("Rate limited by RDAP server. Please try again later.")
            ELSE IF net.status = 403
            THEN Failed("Access denied by RDAP server.")
            ELSE IF net.status >= 500
            THEN Failed("RDAP server error (" \o ToString(net.status)
                            \o "). Please try again later.")
            ELSE Failed("Unexpected response status: " \o ToString(net.status))
       ELSE IF net.kind = "AbortError"
            THEN Failed("Request timeout. RDAP server not responding.")
            ELSE IF net.kind = "fetchError"
            THEN Failed("Network error. Please check your internet connection.")
            ELSE Failed("Failed to check domain availability.")

---------------------------------------------------------------------------
(* Domain service, RDAP variant (domain-service.ts lines 372-664)          *)

LimiterId == "domain-checker"
RateLimiterConfig == Config(MaxRequests, WindowMs)

(* null where a message can stand (error, rateLimitWarning, the message of *)
(* no error): a value of its own, which no Message(text) equals            *)
NullMessage == [type |-> "null"]

(* lastError when it is null *)
Null == [type |-> "null", message |-> NullMessage]

ErrorResult(url) == [url |-> url, status |-> "Error"]

isRateLimitReached(ls, t) ==
    LET status == SlidingGetStatus(ls, LimiterId, RateLimiterConfig, t)
    IN [state |-> status.state, result |-> ~status.result.allowed]

recordRequest_notCounting(ls, count, t) ==
    [state |-> SlidingIsAllowed(ls, LimiterId, RateLimiterConfig, t).state,
     requestCount |-> count]

(* recordRequest(): the limiter map and the request counter after it *)
recordRequest(ls, count, t) ==
    LET r == SlidingIsAllowed(ls, LimiterId, RateLimiterConfig, t)
    IN [state |-> r.state,
        requestCount |-> IF r.result.allowed THEN count + 1 ELSE count]

convertRdapResult(rdapResult) == [url |-> rdapResult.domain, status |-> rdapResult.status]

(* lines 527-534 of checkWithRDAP: rateLimitStatus is what getStatus()     *)
(* returned (the limiter map after it, and its result)                     *)
checkRateLimitStatus(rateLimitStatus, le) ==
    IF ~rateLimitStatus.result.allowed
    THEN [kind |-> "throw", state |-> rateLimitStatus.state,
          lastError |-> [type |-> "rate_limit",
                         message |-> formatRateLimitError(rateLimitStatus.result)]]
    ELSE [kind |-> "await", state |-> rateLimitStatus.state, lastError |-> le]

checkWithRDAP_noValidation(domain, ls, le, t) ==
    checkRateLimitStatus(SlidingGetStatus(ls, LimiterId, RateLimiterConfig, t), le)

(* checkWithRDAP up to its await: either it throws, or the lookup starts *)
checkWithRDAP(domain, ls, le, t) ==
    IF ~validateDomain(domain)
    THEN [kind |-> "throw", state |-> ls,
          lastError |-> [type |-> "api_error", message |-> Message("Invalid domain format.")]]
    ELSE checkRateLimitStatus(SlidingGetStatus(ls, LimiterId, RateLimiterConfig, t), le)

checkDomainCatch_rethrow(completion, cleanDomain) == completion

(* the catch of checkDomain: a throw becomes an Error result *)
checkDomainCatch(completion, cleanDomain) ==
    IF completion.kind = "throw"
    THEN [kind |-> "return", result |-> ErrorResult(cleanDomain),
          state |-> completion.state, lastError |-> completion.lastError]
    ELSE completion

(* what checkDomain hands to its caller: c is the completion of its try    *)
(* block after the catch                                                   *)
checkDomainCompletion(c, cleanDomain) ==
    [kind |-> c.kind, state |-> c.state, lastError |-> c.lastError,
     domain |-> cleanDomain,
     result |-> IF c.kind = "return" THEN c.result ELSE ErrorResult(cleanDomain)]

(* lines 581-595 of checkDomain, cleanDomain being the normalized input *)
checkDomainTry(cleanDomain, ls, le, t) ==
    checkDomainCompletion(
        checkDomainCatch(checkWithRDAP(cleanDomain, ls, le, t), cleanDomain),
        cleanDomain)

checkDomain_noLowerCase(domain, ls, le, t) == checkDomainTry(Trim(domain), ls, le, t)

(* checkDomain up to its await *)
checkDomain(domain, ls, le, t) == checkDomainTry(Trim(ToLowerCase(domain)), ls, le, t)

(* checkWithRDAP and checkDomain after the lookup has ended with net *)
checkDomainResume(domain, net, ls, count, t) ==
    LET rdapResult == rdapCheckDomain(domain, net)
        rec == recordRequest(ls, count, t)
    IN [state |-> rec.state, requestCount |-> rec.requestCount,
        result |-> convertRdapResult(rdapResult)]

IdleCall == [pc |-> "idle", op |-> "none", isArray |-> TRUE, domains |-> <<>>,
             domainsToCheck |-> <<>>, i |-> 0, results |-> <<>>, wakeAt |-> 0,
             inflight |-> <<>>, lookups |-> <<>>, abortedAt |-> -1]

(* isArray tells whether the value passed for domains was an array, and    *)
(* domains holds its elements.  lookups is the log of the calls made to    *)
(* the registry client: the index of the batch entry, the domain passed    *)
(* and the status the client returned.  abortedAt is the index at which    *)
(* the loop left through its rate-limit break, or -1.                      *)
Lookup(index, domain) == [index |-> index, domain |-> domain, status |-> "pending"]

(* What a caller passes for domains: an array of strings, or a value that *)
(* is no array (null, a string, an object).                                *)
Array(elements) == [isArray |-> TRUE, elements |-> elements]

NonArrays ==
    { [isArray |-> FALSE, type |-> "null"],
      [isArray |-> FALSE, type |-> "string"],
      [isArray |-> FALSE, type |-> "object"] }

(* Array.isArray(value) *)
IsArray(value) == value.isArray

slice_noCap(seq, n) == seq

slice(seq, n) == SubSeq(seq, 1, IF Len(seq) < n THEN Len(seq) ELSE n)

MarkRemaining_onlyCurrent(c) ==
    Append(c.results, ErrorResult(c.domainsToCheck[c.i + 1]))

MarkRemaining_skipCurrent(c) ==
    c.results \o [j \in 1..(Len(c.domainsToCheck) - c.i - 1) |->
                     ErrorResult(c.domainsToCheck[c.i + 1 + j])]

(* lines 632-636: every domain from index i on is marked Error *)
MarkRemaining(c) ==
    c.results \o [j \in 1..(Len(c.domainsToCheck) - c.i) |->
                     ErrorResult(c.domainsToCheck[c.i + j])]

(* The for-loop of checkDomains from iteration c.i (0-based) up to its     *)
(* next await or its return.  c is the call's frame.                       *)
RECURSIVE checkDomainsLoop(_, _, _, _)

(* lines 639-652: r is what checkDomain(domainsToCheck[i]) came to *)
checkDomainsTry(c, r, t) ==
    IF r.kind = "await"
    THEN [call |-> [c EXCEPT !.pc = "lookup", !.inflight = r.domain,
                             !.lookups = Append(@, Lookup(c.i, r.domain))],
          state |-> r.state, lastError |-> r.lastError]
    ELSE IF r.kind = "return"
    THEN IF c.i < Len(c.domainsToCheck) - 1
         THEN [call |-> [c EXCEPT !.results = Append(@, r.result),
                                  !.pc = "delay",
                                  !.wakeAt = waitForNextRequest(DelayMs, t)],
               state |-> r.state, lastError |-> r.lastError]
         ELSE checkDomainsLoop(
                  [c EXCEPT !.results = Append(@, r.result), !.i = @ + 1],
                  r.state, r.lastError, t)
    ELSE checkDomainsLoop(
             [c EXCEPT !.results = Append(@, ErrorResult(c.domainsToCheck[c.i + 1])),
                       !.i = @ + 1],
             r.state, r.lastError, t)

(* lines 626-652: one iteration, limited being what isRateLimitReached()   *)
(* returned (the limiter map after it, and its result)                     *)
checkDomainsIteration(c, limited, le, t) ==
    IF limited.result
    THEN [call |-> [c EXCEPT !.results = MarkRemaining(c), !.pc = "done",
                             !.abortedAt = c.i],
          state |-> limited.state, lastError |-> le]
    ELSE checkDomainsTry(
             c, checkDomain(c.domainsToCheck[c.i + 1], limited.state, le, t), t)

checkDomainsLoop(c, ls, le, t) ==
    IF c.i >= Len(c.domainsToCheck)
    THEN [call |-> [c EXCEPT !.pc = "done"], state |-> ls, lastError |-> le]
    ELSE checkDomainsIteration(c, isRateLimitReached(ls, t), le, t)

(* checkDomains from its entry to its first await or its return *)
checkDomains(domains, ls, le, t) ==
    IF ~IsArray(domains) \/ Len(domains.elements) = 0
    THEN [call |-> [IdleCall EXCEPT !.pc = "done", !.op = "checkDomains",
                                    !.isArray = IsArray(domains)],
          state |-> ls, lastError |-> le]
    ELSE checkDomainsLoop(
             [IdleCall EXCEPT !.op = "checkDomains", !.domains = domains.elements,
                              !.domainsToCheck =
                                  slice(domains.elements, MAX_DOMAINS_PER_BATCH)],
             ls, le, t)

---------------------------------------------------------------------------
(* Generation run (src/unnamed/part_006)                                   *)

requiredExtensions ==
    << <<".", "c", "o", "m">>,
       <<".", "m", "y">>,
       <<".", "c", "o", "m", ".", "m", "y">>,
       <<".", "s", "h", "o", "p">>,
       <<".", "a", "i">>,
       <<".", "n", "e", "t">>,
       <<".", "o", "r", "g">>,
       <<".", "e", "d", "u", ".", "m", "y">>,
       <<".", "b", "i", "z", ".", "m", "y">>,
       <<".", "x", "y", "z">> >>

endsWith(str, suffix) ==
    /\ Len(str) >= Len(suffix)
    /\ SubSeq(str, Len(str) - Len(suffix) + 1, Len(str)) = suffix

(* name.toLowerCase().replace(/[^a-z0-9]/g, "") *)
NameLower(name) ==
    LET Kept(ch) == ch \in Range(LowerLetters) \cup Digits
    IN SelectSeq(ToLowerCase(name), Kept)

(* allDomains.find(d => d.endsWith(ext)), with the fallback of line 304 *)
find(seq, ext, default) ==
    IF \E k \in 1..Len(seq) : endsWith(seq[k], ext)
    THEN seq[CHOOSE k \in 1..Len(seq) :
                 endsWith(seq[k], ext) /\ \A m \in 1..(k - 1) : ~endsWith(seq[m], ext)]
    ELSE default

ensureRequiredDomainsOf(nameItem) ==
    LET suggestedDomains == nameItem.suggestedDomains
        nameLower == NameLower(nameItem.name)
        Missing(ext) == ~\E k \in 1..Len(suggestedDomains) : endsWith(suggestedDomains[k], ext)
        missingExtensions == SelectSeq(requiredExtensions, Missing)
        additionalDomains == [k \in 1..Len(missingExtensions) |->
                                 nameLower \o missingExtensions[k]]
        allDomains == suggestedDomains \o additionalDomains
        orderedDomains ==
            [k \in 1..Len(requiredExtensions) |->
                find(allDomains, requiredExtensions[k], nameLower \o requiredExtensions[k])]
    IN [nameItem EXCEPT !.suggestedDomains = orderedDomains]

ensureRequiredDomains(names) == [k \in 1..Len(names) |-> ensureRequiredDomainsOf(names[k])]

WithDomains(nameItem, domains) ==
    [name |-> nameItem.name, suggestedDomains |-> nameItem.suggestedDomains,
     domains |-> domains]

(* resetCounterCalls counts the calls the run has made to                   *)
(* domainService.resetCounter()                                            *)
IdleRun == [pc |-> "idle", checkDomains |-> FALSE, names |-> <<>>, k |-> 0,
            namesWithDomains |-> <<>>, limited |-> FALSE, resetCounterCalls |-> 0,
            out |-> [results |-> <<>>, error |-> NullMessage,
                     rateLimitWarning |-> NullMessage]]

(* generateNamesAction, from the return of generateNamesWithGroq on        *)
(* (lines 21-47)                                                           *)
generateNamesActionReturn(r, results, le) ==
    [r EXCEPT !.pc = "done",
              !.out = [results |-> results,
                       error |-> NullMessage,
                       rateLimitWarning |->
                           IF r.checkDomains /\ le.type = "rate_limit"
                           THEN le.message ELSE NullMessage]]

(* String.prototype.includes *)
includes(s, sub) ==
    \E i \in 1..(Len(s) - Len(sub) + 1) : SubSeq(s, i, i + Len(sub) - 1) = sub

(* formatError(err, apiName) of the name generator, by the message of err *)
formatError(message, apiName) ==
    IF \/ includes(message, "API key")
       \/ includes(message, "API_KEY_INVALID")
       \/ includes(message, "api_key")
       \/ includes(message, "authentication")
    THEN "Invalid API Key. Please check your "
             \o (IF apiName = "Gemini" THEN "GEMINI_API_KEY" ELSE "GROQ_API_KEY")
             \o " in .env.local"
    ELSE IF \/ includes(message, "quota")
            \/ includes(message, "RESOURCE_EXHAUSTED")
            \/ includes(message, "rate_limit")
            \/ includes(message, "429")
    THEN "API quota exceeded. Please try again later or check your billing."
    ELSE IF includes(message, "network") \/ includes(message, "fetch")
    THEN "Network error. Please check your internet connection."
    ELSE IF includes(message, "JSON")
    THEN "Failed to parse AI response. Please try again."
    ELSE IF message # "" THEN message
    ELSE "Failed to generate names. Please try again."

(* generateNamesAction when generateNamesWithGroq rejects (lines 30-41),   *)
(* errorMessage being the message of the rejection                         *)
generateNamesActionCatch(r, errorMessage, le) ==
    [r EXCEPT !.pc = "done",
              !.out = [results |-> <<>>,
                       error |-> IF le # Null THEN le.message
                                 ELSE IF errorMessage.text # "" THEN errorMessage
                                 ELSE Message("Something went wrong. Please try again."),
                       rateLimitWarning |-> NullMessage]]

(* The for-loop of processDomainChecks from name r.k (0-based) up to its   *)
(* next await or the return of generateNamesAction.  c is the frame of the *)
(* checkDomains call the run makes.                                        *)
RECURSIVE processDomainChecksLoop(_, _, _, _)
processDomainChecksLoop(r, ls, le, t) ==
    IF r.k >= Len(r.names)
    THEN [run |-> generateNamesActionReturn(r, r.namesWithDomains, le),
          call |-> IdleCall, state |-> ls, lastError |-> le]
    ELSE LET nameItem == r.names[r.k + 1]
         IN IF Len(nameItem.suggestedDomains) > 0
            THEN LET cd == checkDomains(Array(nameItem.suggestedDomains), ls, le, t)
                 IN [run |-> [r EXCEPT !.pc = "checking"],
                     call |-> cd.call, state |-> cd.state, lastError |-> cd.lastError]
            ELSE processDomainChecksLoop(
                     [r EXCEPT !.namesWithDomains = Append(@, WithDomains(nameItem, <<>>)),
                               !.k = @ + 1],
                     ls, le, t)

processDomainChecksCatch_rethrow(r, ls, le, t) ==
    [run |-> generateNamesActionCatch(r, Message("Domain check failed"), le),
     call |-> IdleCall, state |-> ls, lastError |-> le]

(* the catch of processDomainChecks (lines 354-364), and the loop going on *)
processDomainChecksCatch(r, ls, le, t) ==
    LET nameItem == r.names[r.k + 1]
    IN processDomainChecksLoop(
           [r EXCEPT !.namesWithDomains =
                         Append(@, WithDomains(nameItem,
                             [j \in 1..Len(nameItem.suggestedDomains) |->
                                 ErrorResult(nameItem.suggestedDomains[j])])),
                     !.k = @ + 1],
           ls, le, t)

processDomainChecksResume_sliceFromCurrent(r, c, ls, le, t) ==
    LET nameItem == r.names[r.k + 1]
    IN IF c.pc = "rejected"
       THEN processDomainChecksCatch(r, ls, le, t)
       ELSE LET pushed == Append(r.namesWithDomains, WithDomains(nameItem, c.results))
                limited == isRateLimitReached(ls, t)
            IN IF limited.result
               THEN LET remainingNames == SubSeq(r.names, Len(pushed), Len(r.names))
                        all == pushed \o [j \in 1..Len(remainingNames) |->
                                             WithDomains(remainingNames[j], <<>>)]
                    IN [run |-> generateNamesActionReturn(
                                    [r EXCEPT !.namesWithDomains = all, !.limited = TRUE],
                                    all, le),
                        call |-> IdleCall, state |-> limited.state, lastError |-> le]
               ELSE processDomainChecksLoop(
                        [r EXCEPT !.namesWithDomains = pushed, !.k = @ + 1],
                        limited.state, le, t)

(* processDomainChecks after its checkDomains call c has settled           *)
(* (lines 337-364)                                                         *)
processDomainChecksResume(r, c, ls, le, t) ==
    LET nameItem == r.names[r.k + 1]
    IN IF c.pc = "rejected"
       THEN processDomainChecksCatch(r, ls, le, t)
       ELSE LET pushed == Append(r.namesWithDomains, WithDomains(nameItem, c.results))
                limited == isRateLimitReached(ls, t)
            IN IF limited.result
               THEN LET remainingNames == SubSeq(r.names, Len(pushed) + 1, Len(r.names))
                        all == pushed \o [j \in 1..Len(remainingNames) |->
                                             WithDomains(remainingNames[j], <<>>)]
                    IN [run |-> generateNamesActionReturn(
                                    [r EXCEPT !.namesWithDomains = all, !.limited = TRUE],
                                    all, le),
                        call |-> IdleCall, state |-> limited.state, lastError |-> le]
               ELSE processDomainChecksLoop(
                        [r EXCEPT !.namesWithDomains = pushed, !.k = @ + 1],
                        limited.state, le, t)

(* what the language model returns: names as parsed from its JSON *)
NamePool ==
    << [name |-> <<"A", "b">>, suggestedDomains |-> <<>>],
       [name |-> <<"a">>, suggestedDomains |-> << <<"a", ".", "c", "o", "m", ".", "m", "y">>,
                                                  <<"g", "o", "a", ".", "a", "i">> >>],
       [name |-> <<"!">>, suggestedDomains |-> <<>>] >>

RECURSIVE SeqsUpTo(_, _)
SeqsUpTo(S, n) ==
    IF n = 0 THEN {<<>>}
    ELSE LET shorter == SeqsUpTo(S, n - 1)
         IN shorter \cup {Append(q, x) : q \in shorter, x \in S}

LlmResponses == SeqsUpTo(Range(NamePool), MaxNames)

---------------------------------------------------------------------------
(* Inputs                                                                  *)

(* mostly well-formed domains, one of which needs normalizing: it stands   *)
(* between U+FEFF and U+2003                                               *)
PoolA == << <<"a", ".", "c", "o", "m">>,
            <<"﻿", "A", ".", "C", "o", "m", "\\u2003">>,
            <<"b", "-", "1", ".", "m", "y">>,
            <<"a", " ", "b">> >>

(* mostly malformed domains, the first with U+0181, whose lower-case form  *)
(* is U+0253                                                               *)
PoolB == << <<"Ɓ", ".", "c", "o", "m">>,
            <<"-", "a", ".", "c", "o", "m">>,
            <<"a", ".", "c">>,
            <<"b", "-", "1", ".", "m", "y">> >>

(* well-formed domains, the first under an extension other than .com, .my  *)
(* and .ai                                                                 *)
PoolC == << <<"a", ".", "i", "o">>,
            <<"a", ".", "a", "i">> >>

DomainPool == Range(PoolA) \cup Range(PoolB)

(* the batch of length len that walks pool round and round *)
Batch(pool, len) == [k \in 1..len |-> pool[((k - 1) % Len(pool)) + 1]]

Batches ==
    {Batch(pool, len) : pool \in {PoolA, PoolB}, len \in 0..MaxBatchLen}
        \cup {Batch(PoolC, len) : len \in 1..Len(PoolC)}

---------------------------------------------------------------------------
(* The state machine                                                       *)

(* lastFailure is the kind of error (section 7 of the specification) of    *)
(* the most recent lookup that failed, "null" after resetCounter().        *)

FailureKind(net) ==
    IF net.kind = "http"
    THEN IF net.status = 429 THEN "rate_limit" ELSE "api_error"
    ELSE "network_error"

(* the failure, if any, of the domain a synchronous stretch of the loop    *)
(* has handled: old and new are the frames before and after it             *)
FailureOf(prev, old, new) ==
    IF new.abortedAt >= 0 THEN "rate_limit"
    ELSE IF Len(new.results) > Len(old.results)
            /\ new.results[Len(new.results)].status = "Error"
    THEN IF validateDomain(Trim(ToLowerCase(new.domainsToCheck[Len(new.results)])))
         THEN "rate_limit" ELSE "api_error"
    ELSE prev

Init ==
    /\ now = 0
    /\ limitersState = <<>>
    /\ admitted = <<>>
    /\ calls = <<>>
    /\ requestCount = 0
    /\ lastError = Null
    /\ lastFailure = "null"
    /\ call = [p \in Callers |-> IdleCall]
    /\ run = IdleRun
    /\ expanded = <<>>

(* Date.now() advances *)
Tick ==
    /\ now < MaxTime
    /\ now' = now + 1
    /\ UNCHANGED <<expanded, limitersState, admitted, calls, requestCount, lastError, lastFailure, call, run>>

(* checkDomains(domains) invoked by caller p, up to its first await or its  *)
(* return                                                                  *)
CheckDomainsEnter(p, domains) ==
    /\ call[p].pc = "idle"
    /\ run.pc = "idle"
    /\ now <= MaxTime
    /\ LET r == checkDomains(domains, limitersState, lastError, now)
       IN /\ call' = [call EXCEPT ![p] = r.call]
          /\ limitersState' = r.state
          /\ lastError' = r.lastError
          /\ lastFailure' = FailureOf(lastFailure, IdleCall, r.call)
    /\ UNCHANGED <<expanded, now, requestCount, run>>

(* a caller invokes checkDomains(domains); calls start up to MaxTime *)
CheckDomainsCall(p, domains) ==
    /\ CheckDomainsEnter(p, domains)
    /\ calls' = <<>>
    /\ UNCHANGED admitted

(* checkDomain(domain) invoked by caller p, up to its await or its return  *)
CheckDomainEnter(p, domain) ==
    /\ call[p].pc = "idle"
    /\ run.pc = "idle"
    /\ now <= MaxTime
    /\ LET r == checkDomain(domain, limitersState, lastError, now)
           c == [IdleCall EXCEPT !.op = "checkDomain", !.domains = <<domain>>,
                                 !.domainsToCheck = <<domain>>]
           new == IF r.kind = "await"
                  THEN [c EXCEPT !.pc = "lookup", !.inflight = r.domain,
                                 !.lookups = <<Lookup(0, r.domain)>>]
                  ELSE IF r.kind = "return"
                  THEN [c EXCEPT !.pc = "done", !.results = <<r.result>>]
                  ELSE [c EXCEPT !.pc = "rejected"]
       IN /\ call' = [call EXCEPT ![p] = new]
          /\ limitersState' = r.state
          /\ lastError' = r.lastError
          /\ lastFailure' = IF r.kind = "await" THEN lastFailure
                            ELSE IF validateDomain(r.domain) THEN "rate_limit"
                            ELSE "api_error"
    /\ UNCHANGED <<expanded, now, requestCount, run>>

(* a caller invokes checkDomain(domain) *)
CheckDomainCall(p, domain) ==
    /\ CheckDomainEnter(p, domain)
    /\ calls' = <<>>
    /\ UNCHANGED admitted

(* the call of caller p waits for its registry lookup: for the fetch, or,  *)
(* the fetch having resolved with status 200, for the body                 *)
InLookup(c) == c.pc \in {"lookup", "json"}

(* the response whose body checkDomain of the RDAP library reads *)
HasBody(net) == net.kind = "http" /\ net.status = 200

(* the fetch of the lookup of caller p resolves with status 200: the timer *)
(* of the per-request timeout is cleared and the call waits for the body,  *)
(* which no abort can end any more                                         *)
LookupFetchResolves(p) ==
    /\ call[p].pc = "lookup"
    /\ call' = [call EXCEPT ![p].pc = "json"]
    /\ UNCHANGED <<expanded, now, limitersState, admitted, calls, requestCount, lastError,
                   lastFailure, run>>

LookupReturn_neverSettles(p, net) ==
    /\ InLookup(call[p])
    /\ call' = [call EXCEPT ![p].pc = "hung"]
    /\ UNCHANGED <<expanded, now, limitersState, admitted, calls, requestCount, lastError,
                   lastFailure, run>>

(* the registry lookup of caller p ends with net, a response with status   *)
(* 200 once its body has been read, any other outcome as the fetch         *)
(* settles; the call runs on to its next await or its return.  A body that *)
(* never arrives takes no step: the call stays at the await of the body.   *)
LookupReturn(p, net) ==
    /\ call[p].pc = (IF HasBody(net) THEN "json" ELSE "lookup")
    /\ Settles(net)
    /\ LET c == call[p]
           r == checkDomainResume(c.inflight, net, limitersState, requestCount, now)
           pushed == [c EXCEPT !.results = Append(@, r.result), !.inflight = <<>>,
                               !.lookups[Len(c.lookups)].status = r.result.status]
       IN /\ requestCount' = r.requestCount
          /\ lastFailure' = IF r.result.status = "Error" THEN FailureKind(net)
                            ELSE lastFailure
          /\ IF c.op = "checkDomain"
             THEN /\ call' = [call EXCEPT ![p] = [pushed EXCEPT !.pc = "done"]]
                  /\ limitersState' = r.state
                  /\ lastError' = lastError
             ELSE IF c.i < Len(c.domainsToCheck) - 1
             THEN /\ call' = [call EXCEPT ![p] =
                        [pushed EXCEPT !.pc = "delay",
                                       !.wakeAt = waitForNextRequest(DelayMs, now)]]
                  /\ limitersState' = r.state
                  /\ lastError' = lastError
             ELSE LET k == checkDomainsLoop([pushed EXCEPT !.i = @ + 1],
                                            r.state, lastError, now)
                  IN /\ call' = [call EXCEPT ![p] = k.call]
                     /\ limitersState' = k.state
                     /\ lastError' = k.lastError
    /\ UNCHANGED <<expanded, now, admitted, calls, run>>

(* the loop of caller p from the end of its inter-request delay to its     *)
(* next await or its return                                                *)
DelayResume(p) ==
    /\ call[p].pc = "delay"
    /\ LET t == IF now < call[p].wakeAt THEN call[p].wakeAt ELSE now
           k == checkDomainsLoop([call[p] EXCEPT !.i = @ + 1],
                                 limitersState, lastError, t)
       IN /\ now' = t
          /\ call' = [call EXCEPT ![p] = k.call]
          /\ limitersState' = k.state
          /\ lastError' = k.lastError
          /\ lastFailure' = FailureOf(lastFailure, call[p], k.call)
    /\ UNCHANGED <<expanded, calls, requestCount, run>>

(* the timer of the inter-request delay of caller p fires, at wakeAt or    *)
(* later; the loop goes on                                                 *)
DelayDone(p) ==
    /\ DelayResume(p)
    /\ UNCHANGED admitted

(* the caller takes the result of its call *)
CallReturn(p) ==
    /\ call[p].pc \in {"done", "rejected"}
    /\ run.pc = "idle"
    /\ call' = [call EXCEPT ![p] = IdleCall]
    /\ UNCHANGED <<expanded, now, limitersState, admitted, calls, requestCount, lastError, lastFailure, run>>

(* a call to the service stands at one of its awaits *)
CallAwaiting == \E p \in Callers : call[p].pc \in {"lookup", "json", "delay"}

(* resetCounter(): the counter, the error slot and the limiter map after it *)
resetCounter(ls, t) ==
    [requestCount |-> 0,
     lastError |-> Null,
     state |-> SlidingReset(ls, LimiterId, RateLimiterConfig, t)]

(* In the service's behaviours calls holds the resetCounter() calls made   *)
(* while the call under way stands at an await or, with no such call, the  *)
(* most recent one: the counter and the error slot it found, and what      *)
(* getRequestCount() and getLastError() return as it returns.              *)
ResetCounterLog(count, le, countAfter, leAfter) ==
    <<[limiter |-> "service", op |-> "resetCounter",
       before |-> [requestCount |-> count, lastError |-> le],
       after |-> [requestCount |-> countAfter, lastError |-> leAfter]]>>

(* resetCounter(): the function has no guard, so it may be called while a  *)
(* call to the service stands at one of its awaits                         *)
ResetCounterApply ==
    /\ LET r == resetCounter(limitersState, now)
       IN /\ requestCount' = r.requestCount
          /\ lastError' = r.lastError
          /\ limitersState' = r.state
    /\ lastFailure' = "null"
    /\ UNCHANGED <<expanded, now, call, run>>

(* no more than MaxResetsPerCall calls of resetCounter() are made while    *)
(* one call to the service stands at its awaits                            *)
ResetsBounded == CallAwaiting => Len(calls) < MaxResetsPerCall

ResetCounterCall_keepsError ==
    /\ ResetsBounded
    /\ LET r == resetCounter(limitersState, now)
       IN /\ requestCount' = r.requestCount
          /\ lastError' = lastError
          /\ limitersState' = r.state
          /\ calls' = (IF CallAwaiting THEN calls ELSE <<>>)
                          \o ResetCounterLog(requestCount, lastError,
                                        r.requestCount, lastError)
    /\ lastFailure' = "null"
    /\ UNCHANGED <<expanded, now, admitted, call, run>>

ResetCounterCall ==
    /\ ResetsBounded
    /\ ResetCounterApply
    /\ calls' = (IF CallAwaiting THEN calls ELSE <<>>)
                    \o ResetCounterLog(requestCount, lastError, requestCount', lastError')
    /\ UNCHANGED admitted

(* isRateLimitReached() called on its own: it reads the status of the      *)
(* limiter, which creates the limiter's entry where there is none          *)
IsRateLimitReachedCall ==
    /\ limitersState' = isRateLimitReached(limitersState, now).state
    /\ UNCHANGED <<expanded, now, admitted, calls, requestCount, lastError, lastFailure,
                   call, run>>

RunStart_noReset(checkFlag) ==
    /\ run.pc = "idle"
    /\ call[1].pc = "idle"
    /\ now <= MaxTime
    /\ run' = [IdleRun EXCEPT !.pc = "llm", !.checkDomains = checkFlag]
    /\ calls' = <<>>
    /\ UNCHANGED <<expanded, now, limitersState, admitted, requestCount, lastError, lastFailure, call>>

(* generateNamesAction(formState) up to the await of the language model:   *)
(* generateNamesWithGroq resets the domain service and calls the model     *)
RunStart(checkFlag) ==
    /\ run.pc = "idle"
    /\ call[1].pc = "idle"
    /\ now <= MaxTime
    /\ LET r == resetCounter(limitersState, now)
       IN /\ requestCount' = r.requestCount
          /\ lastError' = r.lastError
          /\ limitersState' = r.state
          /\ calls' = ResetCounterLog(requestCount, lastError,
                                 r.requestCount, r.lastError)
    /\ lastFailure' = "null"
    /\ run' = [IdleRun EXCEPT !.pc = "llm", !.checkDomains = checkFlag,
                               !.resetCounterCalls = @ + 1]
    /\ UNCHANGED <<expanded, now, admitted, call>>

(* during a run calls also logs the names (by their index) whose           *)
(* checkDomains call rejected                                              *)
Rejection(nameIndex) ==
    [limiter |-> "service", op |-> "checkDomains", at |-> now,
     name |-> nameIndex, result |-> "rejected"]

(* messages with which the call of the language model rejects: one for    *)
(* each branch of formatError, and the empty one                           *)
LlmErrorMessages ==
    {"boom", "", "Incorrect API key provided", "429 Too Many Requests", "fetch failed"}

(* An answer of the language model: its cleaned text (line 243) and what   *)
(* JSON.parse makes of the text (line 244).  Either the text is no JSON,   *)
(* and JSON.parse gives up at the code unit at (counted from 0, the length *)
(* of the text where the text ends too soon), or it is the JSON of a value *)
(* (null, a primitive or an array, an object) with its member names        *)
(* (absent, null, a primitive).                                            *)
(* NotJson is for a text that, after its leading white space, begins       *)
(* neither a string, a number, an object nor an array and is not true,     *)
(* false or null.  JSON.parse gives up at the first code unit that is no   *)
(* white space, or, when that begins true, false or null, at the first     *)
(* code unit that departs from the literal, or, when the literal is        *)
(* complete, at the first code unit after it that is no white space.       *)
NotJson(text) ==
    LET blank(k) == SubSeq(text, k + 1, k + 1) \in {" ", "\t", "\n", "\r"}
        from == {k \in 0..Len(text) : \A j \in 0..(k - 1) : blank(j)}
        start == CHOOSE k \in from : \A m \in from : m <= k
        first == IF start = Len(text) THEN "" ELSE SubSeq(text, start + 1, start + 1)
        literal == IF first = "t" THEN "true"
                   ELSE IF first = "f" THEN "false"
                   ELSE IF first = "n" THEN "null"
                   ELSE ""
        same == {0} \cup {k \in 1..Len(literal) :
                              /\ start + k <= Len(text)
                              /\ SubSeq(text, start + 1, start + k) = SubSeq(literal, 1, k)}
        scanned == start + (CHOOSE k \in same : \A m \in same : m <= k)
        rest == {k \in scanned..(Len(text) - 1) : ~blank(k)}
        complete == literal # "" /\ scanned = start + Len(literal)
    IN [text |-> text, parses |-> FALSE,
        at |-> IF complete THEN CHOOSE k \in rest : \A m \in rest : k <= m
               ELSE scanned,
        afterValue |-> complete,
        value |-> "none", names |-> "absent"]
Json(text, value, names) ==
    [text |-> text, parses |-> TRUE, at |-> Len(text), afterValue |-> TRUE,
     value |-> value, names |-> names]

(* answers that yield no names *)
InvalidAnswers ==
    { NotJson(""),
      NotJson("oops"),
      NotJson("fetch"),
      NotJson("API key"),
      NotJson("quota"),
      NotJson("Sorry, no API key is set"),
      NotJson("null and void"),
      Json("null", "null", "absent"),
      Json("42", "primitive", "absent"),
      Json("{}", "object", "absent"),
      Json("{\"names\":null}", "object", "null"),
      Json("{\"names\":1}", "object", "primitive") }

(* The message of the SyntaxError of JSON.parse (V8) on such a text.  A    *)
(* text of 21 code units or more is quoted in part only: up to 10 code     *)
(* units before the code unit at which JSON.parse gave up, and 10 from it  *)
(* on.                                                                     *)
JsonSyntaxError(answer) ==
    LET text == answer.text
        at == answer.at
        token == SubSeq(text, at + 1, at + 1)
        unexpected == "Unexpected token '" \o token \o "', "
    IN IF answer.afterValue
       THEN "Unexpected non-whitespace character after JSON at position " \o ToString(at)
       ELSE IF at >= Len(text) THEN "Unexpected end of JSON input"
       ELSE IF token \in Digits \cup {"-"}
       THEN "Unexpected number in JSON at position " \o ToString(at)
       ELSE IF token = "\""
       THEN "Unexpected string in JSON at position " \o ToString(at)
       ELSE IF text \in {"NaN", "Infinity", "undefined"}
       THEN "\"" \o text \o "\" is not valid JSON"
       ELSE IF Len(text) < 21
       THEN unexpected \o "\"" \o text \o "\" is not valid JSON"
       ELSE IF at < 10
       THEN unexpected \o "\"" \o SubSeq(text, 1, at + 10) \o "\"... is not valid JSON"
       ELSE IF at < Len(text) - 10
       THEN unexpected \o "...\"" \o SubSeq(text, at - 9, at + 10)
                \o "\"... is not valid JSON"
       ELSE unexpected \o "...\"" \o SubSeq(text, at - 9, Len(text))
                \o "\" is not valid JSON"

(* what lines 244-248 throw on an answer that yields no names: JSON.parse  *)
(* its SyntaxError, parsed.names of null a TypeError, the check of         *)
(* parsed.names its Error                                                  *)
ThrownOnAnswer(answer) ==
    IF ~answer.parses THEN JsonSyntaxError(answer)
    ELSE IF answer.value = "null"
    THEN "Cannot read properties of null (reading 'names')"
    ELSE "Invalid response format from API"

(* the catch of generateNamesWithGroq (lines 264-268) and then that of     *)
(* generateNamesAction                                                     *)
generateNamesWithGroqCatch(r, message, le) ==
    generateNamesActionCatch(r, Message(formatError(message, "Groq")), le)

(* the call of the language model rejects with message *)
LlmFails(message) ==
    /\ run.pc = "llm"
    /\ run' = generateNamesWithGroqCatch(run, message, lastError)
    /\ calls' = <<>>
    /\ UNCHANGED <<expanded, now, limitersState, admitted, requestCount, lastError, lastFailure, call>>

(* the language model answers with a text that is not JSON, or whose JSON  *)
(* has no array of names                                                   *)
LlmReturnsInvalid(answer) ==
    /\ run.pc = "llm"
    /\ run' = generateNamesWithGroqCatch(run, ThrownOnAnswer(answer), lastError)
    /\ calls' = <<>>
    /\ UNCHANGED <<expanded, now, limitersState, admitted, requestCount, lastError, lastFailure, call>>

(* the language model answers with names; the run goes on to its first     *)
(* checkDomains call or to its return                                      *)
LlmReturn(names) ==
    /\ run.pc = "llm"
    /\ LET namesWithRequiredDomains == ensureRequiredDomains(names)
       IN IF run.checkDomains
          THEN LET k == processDomainChecksLoop(
                            [run EXCEPT !.names = ensureRequiredDomains(namesWithRequiredDomains)],
                            limitersState, lastError, now)
               IN /\ run' = k.run
                  /\ call' = [call EXCEPT ![1] = k.call]
                  /\ limitersState' = k.state
                  /\ lastError' = k.lastError
                  /\ lastFailure' = FailureOf(lastFailure, IdleCall, k.call)
          ELSE /\ run' = generateNamesActionReturn(
                             [run EXCEPT !.names = namesWithRequiredDomains],
                             [j \in 1..Len(names) |->
                                 WithDomains(namesWithRequiredDomains[j], <<>>)],
                             lastError)
               /\ UNCHANGED <<call, limitersState, lastError, lastFailure>>
    /\ calls' = <<>>
    /\ UNCHANGED <<expanded, now, admitted, requestCount>>

(* the checkDomains call of the run has settled; the run goes on to the    *)
(* next name or to its return                                              *)
RunNameChecked ==
    /\ run.pc = "checking"
    /\ call[1].pc \in {"done", "rejected"}
    /\ LET k == processDomainChecksResume(run, call[1], limitersState, lastError, now)
       IN /\ run' = k.run
          /\ call' = [call EXCEPT ![1] = k.call]
          /\ limitersState' = k.state
          /\ lastError' = k.lastError
          /\ lastFailure' = FailureOf(lastFailure, IdleCall, k.call)
    /\ calls' = IF call[1].pc = "rejected" THEN Append(calls, Rejection(run.k + 1))
                ELSE calls
    /\ UNCHANGED <<expanded, now, admitted, requestCount>>

(* the caller of generateNamesAction takes its result *)
RunReturn ==
    /\ run.pc = "done"
    /\ run' = IdleRun
    /\ UNCHANGED <<expanded, now, limitersState, admitted, calls, requestCount, lastError, lastFailure, call>>

(* Date.now() advances while the service is exercised *)
ServiceTick ==
    /\ now < MaxServiceTime
    /\ Tick

Next ==
    \/ ServiceTick
    \/ \E d \in Batches : CheckDomainsCall(1, Array(d))
    \/ \E value \in NonArrays : CheckDomainsCall(1, value)
    \/ \E d \in DomainPool : CheckDomainCall(1, d)
    \/ LookupFetchResolves(1)
    \/ \E net \in ServiceNetOutcomes : LookupReturn(1, net)
    \/ DelayDone(1)
    \/ CallReturn(1)
    \/ ResetCounterCall
    \/ IsRateLimitReachedCall

Spec == Init /\ [][Next]_vars

NextRun ==
    \/ Tick
    \/ \E f \in BOOLEAN : RunStart(f)
    \/ \E message \in LlmErrorMessages : LlmFails(message)
    \/ \E answer \in InvalidAnswers : LlmReturnsInvalid(answer)
    \/ \E names \in LlmResponses : LlmReturn(names)
    \/ LookupFetchResolves(1)
    \/ \E net \in ServiceNetOutcomes : LookupReturn(1, net)
    \/ DelayDone(1)
    \/ RunNameChecked
    \/ RunReturn

SpecRun == Init /\ [][NextRun]_vars

(* The run with the domain service replaced by a double whose checkDomains *)
(* may reject while it is pending (name-generator.test.ts, lines 230-245). *)
(* The service of this repository never rejects.                           *)
CheckDomainsRejects ==
    /\ run.pc = "checking"
    /\ call[1].pc \in {"lookup", "json", "delay"}
    /\ call' = [call EXCEPT ![1].pc = "rejected"]
    /\ UNCHANGED <<expanded, now, limitersState, admitted, calls, requestCount, lastError,
                   lastFailure, run>>

NextRunDouble ==
    \/ Tick
    \/ \E f \in BOOLEAN : RunStart(f)
    \/ \E message \in LlmErrorMessages : LlmFails(message)
    \/ \E answer \in InvalidAnswers : LlmReturnsInvalid(answer)
    \/ \E names \in LlmResponses : LlmReturn(names)
    \/ LookupFetchResolves(1)
    \/ \E net \in ServiceNetOutcomes : LookupReturn(1, net)
    \/ DelayDone(1)
    \/ CheckDomainsRejects
    \/ RunNameChecked
    \/ RunReturn

SpecRunDouble == Init /\ [][NextRunDouble]_vars

---------------------------------------------------------------------------
(* The sliding-window limiter on its own: one limiter key, called by       *)
(* isAllowed / getStatus / getRequestCount while the clock advances.       *)
(* admitted is the history of the instants at which isAllowed() returned   *)
(* allowed: true.                                                          *)

TestLimiterId == "per-second"
TestLimiterConfig == Config(MaxRequests, WindowMs)

(* calls is the log of the calls made to a limiter under test: the limiter *)
(* kind, the method, the instant and what the method returned.  The two    *)
(* limiters under test have keys of their own, so a behaviour exercises    *)
(* one of them.                                                            *)
LimiterCall(limiter, op, t, result) ==
    [limiter |-> limiter, op |-> op, at |-> t, result |-> result]

Void == [void |-> TRUE]

Exercising(limiter) ==
    /\ Len(calls) < (IF limiter = "throttle" THEN MaxThrottleCalls ELSE MaxCalls)
    /\ \A k \in 1..Len(calls) : calls[k].limiter = limiter

LimiterIsAllowed ==
    /\ Exercising("sliding")
    /\ LET r == SlidingIsAllowed(limitersState, TestLimiterId, TestLimiterConfig, now)
       IN /\ limitersState' = r.state
          /\ admitted' = IF r.result.allowed THEN Append(admitted, now) ELSE admitted
          /\ calls' = Append(calls, LimiterCall("sliding", "isAllowed", now, r.result))
    /\ UNCHANGED <<expanded, now, requestCount, lastError, lastFailure, call, run>>

LimiterGetStatus ==
    /\ Exercising("sliding")
    /\ LET r == SlidingGetStatus(limitersState, TestLimiterId, TestLimiterConfig, now)
       IN /\ limitersState' = r.state
          /\ calls' = Append(calls, LimiterCall("sliding", "getStatus", now, r.result))
    /\ UNCHANGED <<expanded, now, admitted, requestCount, lastError, lastFailure, call, run>>

LimiterGetRequestCount ==
    /\ Exercising("sliding")
    /\ LET r == SlidingGetRequestCount(limitersState, TestLimiterId, TestLimiterConfig, now)
       IN /\ limitersState' = r.state
          /\ calls' = Append(calls, LimiterCall("sliding", "getRequestCount", now,
                                                [count |-> r.result]))
    /\ UNCHANGED <<expanded, now, admitted, requestCount, lastError, lastFailure, call, run>>

LimiterReset ==
    /\ Exercising("sliding")
    /\ limitersState' = SlidingReset(limitersState, TestLimiterId, TestLimiterConfig, now)
    /\ calls' = Append(calls, LimiterCall("sliding", "reset", now, Void))
    /\ UNCHANGED <<expanded, now, admitted, requestCount, lastError, lastFailure, call, run>>

NextLimiter ==
    \/ Tick
    \/ LimiterIsAllowed
    \/ LimiterGetStatus
    \/ LimiterGetRequestCount
    \/ LimiterReset

SpecLimiter == Init /\ [][NextLimiter]_vars

(* The token bucket on its own *)
TestBucketId == "bucket"
TestBucketConfig == Config(MaxRequests, WindowMs)

BucketIsAllowed ==
    /\ Exercising("bucket")
    /\ LET r == TokenIsAllowed(limitersState, TestBucketId, TestBucketConfig, now)
       IN /\ limitersState' = r.state
          /\ calls' = Append(calls, LimiterCall("bucket", "isAllowed", now, r.result))
    /\ UNCHANGED <<expanded, now, admitted, requestCount, lastError, lastFailure, call, run>>

BucketGetStatus ==
    /\ Exercising("bucket")
    /\ LET r == TokenGetStatus(limitersState, TestBucketId, TestBucketConfig, now)
       IN /\ limitersState' = r.state
          /\ calls' = Append(calls, LimiterCall("bucket", "getStatus", now, r.result))
    /\ UNCHANGED <<expanded, now, admitted, requestCount, lastError, lastFailure, call, run>>

BucketReset ==
    /\ Exercising("bucket")
    /\ limitersState' = TokenReset(limitersState, TestBucketId, TestBucketConfig, now)
    /\ calls' = Append(calls, LimiterCall("bucket", "reset", now, Void))
    /\ UNCHANGED <<expanded, now, admitted, requestCount, lastError, lastFailure, call, run>>

BucketRefillTokens ==
    /\ Exercising("bucket")
    /\ limitersState' = refillTokens(limitersState, TestBucketId, TestBucketConfig, now)
    /\ calls' = Append(calls, LimiterCall("bucket", "refillTokens", now, Void))
    /\ UNCHANGED <<expanded, now, admitted, requestCount, lastError, lastFailure, call, run>>

NextBucket ==
    \/ Tick
    \/ BucketIsAllowed
    \/ BucketGetStatus
    \/ BucketReset
    \/ BucketRefillTokens

SpecBucket == Init /\ [][NextBucket]_vars

(* The throttle on its own: the exported throttler, with delays on the     *)
(* scale of MaxTime in place of its 500 and 10000 milliseconds             *)
TestThrottleId == "throttler"
ThrottleMinDelayMs == 2
ThrottleMaxDelayMs == 6

ThrottleGetDelayMsCall ==
    /\ Exercising("throttle")
    /\ LET r == ThrottleGetDelayMs(limitersState, TestThrottleId,
                                   ThrottleMinDelayMs, ThrottleMaxDelayMs, now)
       IN /\ limitersState' = r.state
          /\ calls' = Append(calls, LimiterCall("throttle", "getDelayMs", now,
                                                [delayMs |-> r.result]))
    /\ UNCHANGED <<expanded, now, admitted, requestCount, lastError, lastFailure, call, run>>

ThrottleRecordRequestCall ==
    /\ Exercising("throttle")
    /\ limitersState' = ThrottleRecordRequest(limitersState, TestThrottleId, now)
    /\ calls' = Append(calls, LimiterCall("throttle", "recordRequest", now, Void))
    /\ UNCHANGED <<expanded, now, admitted, requestCount, lastError, lastFailure, call, run>>

ThrottleRecordFailureCall ==
    /\ Exercising("throttle")
    /\ limitersState' = ThrottleRecordFailure(limitersState, TestThrottleId, now)
    /\ calls' = Append(calls, LimiterCall("throttle", "recordFailure", now, Void))
    /\ UNCHANGED <<expanded, now, admitted, requestCount, lastError, lastFailure, call, run>>

ThrottleResetCall ==
    /\ Exercising("throttle")
    /\ limitersState' = ThrottleReset(limitersState, TestThrottleId, now)
    /\ calls' = Append(calls, LimiterCall("throttle", "reset", now, Void))
    /\ UNCHANGED <<expanded, now, admitted, requestCount, lastError, lastFailure, call, run>>

(* either limiter or the throttle, one per behaviour *)
NextLimiters ==
    \/ Tick
    \/ LimiterIsAllowed
    \/ LimiterGetStatus
    \/ LimiterGetRequestCount
    \/ LimiterReset
    \/ BucketIsAllowed
    \/ BucketGetStatus
    \/ BucketReset
    \/ BucketRefillTokens
    \/ ThrottleGetDelayMsCall
    \/ ThrottleRecordRequestCall
    \/ ThrottleRecordFailureCall
    \/ ThrottleResetCall

SpecLimiters == Init /\ [][NextLimiters]_vars

AdmittedInWindow == {k \in 1..Len(admitted) : admitted[k] > now - WindowMs}

(* the calls made so far are of the three methods the property is about:   *)
(* reset() has not been called                                             *)
OnlyChecksAndReads ==
    \A k \in 1..Len(calls) : calls[k].op \in {"isAllowed", "getStatus", "getRequestCount"}

(* C1: after any sequence of isAllowed(), getStatus() and                  *)
(* getRequestCount() calls, the isAllowed() calls that returned            *)
(* allowed:true at instants in (now - windowMs, now] never number more     *)
(* than maxRequests.                                                       *)
C1_WindowNeverOverAdmitted ==
    OnlyChecksAndReads => Cardinality(AdmittedInWindow) <= MaxRequests

(* the window is full, and it has slid: more requests were admitted in all *)
(* than one window holds                                                   *)
C1_Witness ==
    /\ OnlyChecksAndReads
    /\ Cardinality(AdmittedInWindow) = MaxRequests
    /\ Len(admitted) > MaxRequests

---------------------------------------------------------------------------
(* Properties of checkDomains and checkDomain                              *)

Min(a, b) == IF a < b THEN a ELSE b

Normalize(d) == Trim(ToLowerCase(d))

LimiterTimestamps ==
    IF LimiterId \in DOMAIN limitersState THEN limitersState[LimiterId].timestamps ELSE <<>>

Finished(c) == c.pc = "done" /\ c.op = "checkDomains"

(* C2: when the limiter denies at the k-th domain of the batch, the k-th   *)
(* and every later domain get status Error, none of them is looked up, and *)
(* the loop has stopped.                                                   *)
C2_FailFast ==
    \A p \in Callers :
        LET c == call[p]
        IN c.abortedAt >= 0 =>
             /\ c.pc = "done"
             /\ Len(c.results) = Len(c.domainsToCheck)
             /\ \A j \in (c.abortedAt + 1)..Len(c.domainsToCheck) :
                    c.results[j] = [url |-> c.domainsToCheck[j], status |-> "Error"]
             /\ \A k \in 1..Len(c.lookups) : c.lookups[k].index < c.abortedAt

(* the limiter denied on the 3rd of 5 domains, after two lookups *)
C2_Witness ==
    \E p \in Callers :
        /\ call[p].abortedAt = 2
        /\ Len(call[p].domainsToCheck) = 5
        /\ Len(call[p].lookups) = 2

(* C3: for a list checkDomains returns min(len(domains), 10) results, the  *)
(* i-th for the i-th input domain up to lowercase/trim, on every path; for *)
(* an empty list and for an input that is no list it returns the empty     *)
(* sequence, and looks nothing up.                                         *)
C3_ResultsMatchInput ==
    \A p \in Callers :
        LET c == call[p]
        IN Finished(c) =>
             IF c.isArray
             THEN /\ Len(c.results) = Min(Len(c.domains), 10)
                  /\ \A j \in 1..Len(c.results) :
                         Normalize(c.results[j].url) = Normalize(c.domains[j])
                  /\ c.domains = <<>> => c.lookups = <<>>
             ELSE c.results = <<>> /\ c.lookups = <<>>

(* a batch longer than the cap, cut short by the limiter after a lookup    *)
(* whose url is the normalized form of its input                           *)
C3_Witness ==
    \E p \in Callers :
        /\ Finished(call[p])
        /\ Len(call[p].domains) > 10
        /\ call[p].abortedAt >= 1
        /\ \E j \in 1..Len(call[p].results) :
               /\ call[p].results[j].url # call[p].domains[j]
               /\ call[p].results[j].status # "Error"

(* C4: one checkDomains call looks up at most MAX_DOMAINS_PER_BATCH        *)
(* domains; entries after the 10th are neither looked up nor in the result *)
C4_BatchCap ==
    \A p \in Callers :
        /\ Len(call[p].lookups) <= MAX_DOMAINS_PER_BATCH
        /\ Len(call[p].results) <= MAX_DOMAINS_PER_BATCH
        /\ \A k \in 1..Len(call[p].lookups) :
               call[p].lookups[k].index < MAX_DOMAINS_PER_BATCH

(* an 11-domain batch that ran through all of its first 10 domains *)
C4_Witness ==
    \E p \in Callers :
        /\ Finished(call[p])
        /\ Len(call[p].domains) > MAX_DOMAINS_PER_BATCH
        /\ Len(call[p].results) = MAX_DOMAINS_PER_BATCH
        /\ call[p].abortedAt = -1
        /\ Len(call[p].lookups) >= 2

(* the step in which caller p handled the n-th domain of its call *)
Handled(p, n) ==
    \/ call[p].pc = "idle" /\ call'[p].pc # "idle" /\ n = 1
    \/ call[p].pc = "delay" /\ call'[p] # call[p] /\ n = call[p].i + 2

InvalidHandled(p, n) ==
    /\ Handled(p, n)
    /\ call'[p].abortedAt = -1
    /\ n <= Len(call'[p].domainsToCheck)
    /\ ~validateDomain(Normalize(call'[p].domainsToCheck[n]))

(* C5: a domain that fails validateDomain resolves to Error without a      *)
(* lookup, the limiter's window and the request count stay as they were,   *)
(* and the loop goes on to the next domain.                                *)
C5_InvalidShortCircuits ==
    [][\A p \in Callers : \A n \in 1..MAX_DOMAINS_PER_BATCH :
          InvalidHandled(p, n) =>
             /\ Len(call'[p].results) = n
             /\ call'[p].results[n] =
                    [url |-> Normalize(call'[p].domainsToCheck[n]), status |-> "Error"]
             /\ call'[p].lookups = call[p].lookups
             /\ LimiterTimestamps' = LimiterTimestamps
             /\ requestCount' = requestCount
             /\ call'[p].pc = IF n < Len(call'[p].domainsToCheck) THEN "delay" ELSE "done"
      ]_vars

(* a finished batch in which a malformed domain got Error and the domain   *)
(* after it was looked up and found, with the limiter's window not empty   *)
C5_Witness ==
    \E p \in Callers :
        /\ Finished(call[p])
        /\ call[p].abortedAt = -1
        /\ LimiterTimestamps # <<>>
        /\ \E j \in 1..(Len(call[p].domainsToCheck) - 1) :
               /\ ~validateDomain(Normalize(call[p].domainsToCheck[j]))
               /\ call[p].results[j].status = "Error"
               /\ call[p].results[j + 1].status # "Error"
               /\ \E k \in 1..Len(call[p].lookups) : call[p].lookups[k].index = j

(* the lookup, if any, that caller p's call made for its j-th domain *)
LookupsFor(c, j) == {k \in 1..Len(c.lookups) : c.lookups[k].index = j - 1}

Settled(c) == c.pc \in {"done", "rejected"}

(* C6: checkDomain and checkDomains never reject, and a result is Error    *)
(* exactly when its own domain failed: it was not looked up (malformed,    *)
(* denied by the limiter, or behind the fail-fast abort) or its lookup     *)
(* came back Error; every other result carries the status its lookup       *)
(* returned.                                                               *)
C6_NoThrow ==
    \A p \in Callers :
        LET c == call[p]
        IN /\ c.pc # "rejected"
           /\ c.pc = "done" =>
                \A j \in 1..Len(c.results) :
                    /\ Cardinality(LookupsFor(c, j)) <= 1
                    /\ LookupsFor(c, j) = {} => c.results[j].status = "Error"
                    /\ \A k \in LookupsFor(c, j) :
                           c.results[j].status = c.lookups[k].status

(* a finished batch with a malformed domain, a lookup that failed upstream *)
(* and a lookup that succeeded after both                                  *)
C6_Witness ==
    \E p \in Callers :
        LET c == call[p]
        IN /\ Finished(c)
           /\ \E j1, j2, j3 \in 1..Len(c.results) :
                 /\ j1 < j3 /\ j2 < j3
                 /\ ~validateDomain(Normalize(c.domainsToCheck[j1]))
                 /\ c.results[j1].status = "Error"
                 /\ LookupsFor(c, j2) # {}
                 /\ c.results[j2].status = "Error"
                 /\ c.results[j3].status \in {"Available", "Taken"}

(* the step appended a result with status Error to the call of caller p *)
ResolvedToError(p) ==
    /\ call'[p].pc # "idle"
    /\ \E j \in 1..Len(call'[p].results) :
           /\ j > (IF call[p].pc = "idle" THEN 0 ELSE Len(call[p].results))
           /\ call'[p].results[j].status = "Error"

(* C7: whenever a lookup resolves to status Error, an error is recorded:   *)
(* getLastError() is non-null right afterwards.                            *)
C7_ErrorIsRecorded ==
    [][\A p \in Callers : ResolvedToError(p) => lastError' # Null]_vars

(* C8: the last-error slot holds the most recent failure, whatever was     *)
(* recorded before it, and becomes null only through resetCounter().       *)
C8_LastErrorIsMostRecent ==
    /\ [](lastError.type = lastFailure)
    /\ [][(lastError # Null /\ lastError' = Null) =>
             (requestCount' = 0 /\ LimiterTimestamps' = <<>> /\ lastFailure' = "null")]_vars

RunStopped == run.pc = "done" /\ run.checkDomains /\ run.limited

(* C9: a run with domain checking whose checks the local limiter stopped   *)
(* returns a rateLimitWarning, its partial results and no error.           *)
C9_RateLimitWarning ==
    RunStopped =>
        /\ run.out.rateLimitWarning # NullMessage
        /\ run.out.error = NullMessage
        /\ Len(run.out.results) = Len(run.names)

(* C10: the resetCounter() at the start of a run leaves the limiter's      *)
(* window as it is.                                                        *)
C10_RunKeepsLimiterState ==
    [][(run.pc = "idle" /\ run'.pc = "llm") => LimiterTimestamps' = LimiterTimestamps]_vars

---------------------------------------------------------------------------
(* The registry client on its own: checkDomain(domain) of the RDAP library *)
(* is called, its fetch ends with net (line 179) and, for a 200 response,  *)
(* its json() ends (line 199).  calls holds the last call and where it     *)
(* stands: awaiting the fetch, awaiting the body, or returned.             *)

RdapPending(domain) == RdapResult(Trim(ToLowerCase(domain)), FALSE, "pending", "none")

RdapCall(domain, pc, net, result, t) ==
    [limiter |-> "rdap", op |-> "checkDomain", at |-> t, domain |-> domain,
     pc |-> pc, net |-> net, result |-> result]

RdapAt(pc) == calls # <<>> /\ calls[1].pc = pc

RdapCheckDomain(domain) ==
    /\ calls = <<>> \/ RdapAt("returned")
    /\ calls' = <<RdapCall(domain, "fetch", [kind |-> "none", status |-> 0, body |-> NoBody],
                           RdapPending(domain), now)>>
    /\ UNCHANGED <<expanded, now, limitersState, admitted, requestCount, lastError, lastFailure,
                   call, run>>

(* the await of line 179 ends: every outcome but a 200 response returns *)
RdapFetchSettles(net) ==
    /\ RdapAt("fetch")
    /\ calls' = <<IF net.kind = "http" /\ net.status = 200
                  THEN [calls[1] EXCEPT !.pc = "json", !.net = net]
                  ELSE [calls[1] EXCEPT !.pc = "returned", !.net = net,
                                        !.result = rdapCheckDomain(calls[1].domain, net)]>>
    /\ UNCHANGED <<expanded, now, limitersState, admitted, requestCount, lastError, lastFailure,
                   call, run>>

(* the await of line 199 ends, when the body arrives or fails to parse *)
RdapJsonSettles ==
    /\ RdapAt("json")
    /\ Settles(calls[1].net)
    /\ calls' = <<[calls[1] EXCEPT !.pc = "returned",
                                   !.result = rdapCheckDomain(calls[1].domain, calls[1].net)]>>
    /\ UNCHANGED <<expanded, now, limitersState, admitted, requestCount, lastError, lastFailure,
                   call, run>>

NextRdap ==
    \/ Tick
    \/ \E d \in DomainPool : RdapCheckDomain(d)
    \/ \E net \in NetOutcomes : RdapFetchSettles(net)
    \/ RdapJsonSettles

SpecRdap == Init /\ [][NextRdap]_vars

---------------------------------------------------------------------------
(* Properties of the limiters                                              *)

TimestampsOf(ls, limiterId) ==
    IF limiterId \in DOMAIN ls THEN ls[limiterId].timestamps ELSE <<>>

LastCall == calls[Len(calls)]

(* a step that is a call of op on the limiter under test *)
Called(limiter, op) ==
    /\ Len(calls') = Len(calls) + 1
    /\ calls'[Len(calls')].limiter = limiter
    /\ calls'[Len(calls')].op = op

(* C11: a getStatus() call of the sliding window leaves the stored         *)
(* timestamps as they were, and it reports allowed exactly when an         *)
(* isAllowed() call at the same instant, in the same state, is allowed.    *)
C11_GetStatusIsPeek ==
    [][Called("sliding", "getStatus") =>
          /\ TimestampsOf(limitersState', TestLimiterId)
                 = TimestampsOf(limitersState, TestLimiterId)
          /\ calls'[Len(calls')].result.allowed
                 = SlidingIsAllowed(limitersState, TestLimiterId,
                                    TestLimiterConfig, now).result.allowed]_vars

(* getStatus() has denied on a full window and, later, has allowed again   *)
(* while a stamp of the full window was still within the window            *)
C11_Witness ==
    \E i, j \in 1..Len(calls) :
        /\ i < j
        /\ calls[i].op = "getStatus" /\ ~calls[i].result.allowed
        /\ calls[j].op = "getStatus" /\ calls[j].result.allowed
        /\ calls[j].limiter = "sliding"
        /\ calls[j].result.remaining < MaxRequests

(* tokens and lastRefillTime of the bucket under test; a                   *)
(* bucket not created yet is read as the one its first use at t creates    *)
BucketTokens(ls) ==
    IF TestBucketId \in DOMAIN ls THEN ls[TestBucketId].tokens
    ELSE Capacity(TestBucketConfig)

BucketLastRefill(ls, t) ==
    IF TestBucketId \in DOMAIN ls THEN ls[TestBucketId].lastRefillTime ELSE t

(* what isAllowed() calls at the instants from now on return, called on    *)
(* the limiter map ls                                                      *)
LaterIsAllowed(ls) ==
    [t \in now..MaxTime |->
        TokenIsAllowed(ls, TestBucketId, TestBucketConfig, t).result]

(* C12: a getStatus() call of the token bucket changes neither tokens nor  *)
(* lastRefillTime, and the results of later isAllowed() calls are the same *)
(* with the call as without it.                                            *)
C12_GetStatusPureRead ==
    [][Called("bucket", "getStatus") =>
          /\ BucketTokens(limitersState') = BucketTokens(limitersState)
          /\ BucketLastRefill(limitersState', now) = BucketLastRefill(limitersState, now)
          /\ LaterIsAllowed(limitersState') = LaterIsAllowed(limitersState)]_vars

(* the observable half of C12 alone *)
GetStatusKeepsLaterResults ==
    [][Called("bucket", "getStatus") =>
          LaterIsAllowed(limitersState') = LaterIsAllowed(limitersState)]_vars

(* C13: the bucket never holds fewer than 0 or more than maxRequests       *)
(* tokens, after any isAllowed() / getStatus() / reset() calls.            *)
C13_TokensWithinCapacity ==
    /\ ~DblLess(BucketTokens(limitersState), DblOfInt(0))
    /\ ~DblLess(Capacity(TestBucketConfig), BucketTokens(limitersState))

(* a token was taken, and the bucket was read so much later that the       *)
(* refill ran into the capacity                                            *)
C13_Witness ==
    /\ Len(calls) >= 2
    /\ LastCall.limiter = "bucket" /\ LastCall.op = "getStatus"
    /\ calls[Len(calls) - 1].op = "isAllowed"
    /\ calls[Len(calls) - 1].result.allowed
    /\ calls[Len(calls) - 1].result.remaining * WindowMs
           + (LastCall.at - calls[Len(calls) - 1].at) * MaxRequests
         > MaxRequests * WindowMs
    /\ BucketTokens(limitersState) = Capacity(TestBucketConfig)

(* the first k calls made to the bucket are isAllowed() at one instant *)
Burst(k) ==
    /\ k <= Len(calls)
    /\ \A j \in 1..k : /\ calls[j].limiter = "bucket"
                        /\ calls[j].op = "isAllowed"
                        /\ calls[j].at = calls[1].at

(* C14: of the isAllowed() calls made at one instant on a fresh bucket,    *)
(* the first maxRequests are allowed and the next one is denied.           *)
C14_Burst ==
    \A k \in 1..(MaxRequests + 1) :
        Burst(k) => (calls[k].result.allowed <=> k <= MaxRequests)

C14_Witness ==
    /\ Burst(MaxRequests + 1)
    /\ ~calls[MaxRequests + 1].result.allowed
    /\ \A j \in 1..MaxRequests : calls[j].result.allowed

IsAllowedCalls ==
    LET IsIsAllowed(c) == c.op = "isAllowed"
    IN SelectSeq(calls, IsIsAllowed)

(* C15: when the first maxRequests + 1 isAllowed() calls on a fresh        *)
(* sliding-window limiter, with no reset() among its calls, all come less  *)
(* than windowMs after the first, the first maxRequests are allowed and    *)
(* the last is denied with remaining 0 and a retryAfter above 0.           *)
C15_SlidingDenial ==
    LET A == IsAllowedCalls
    IN (/\ OnlyChecksAndReads
        /\ Len(A) > MaxRequests
        /\ A[1].limiter = "sliding"
        /\ A[MaxRequests + 1].at < A[1].at + WindowMs)
       => /\ \A j \in 1..MaxRequests : A[j].result.allowed
          /\ ~A[MaxRequests + 1].result.allowed
          /\ A[MaxRequests + 1].result.remaining = 0
          /\ A[MaxRequests + 1].result.retryAfter > 0

(* the calls came at different instants of the window, the denied one      *)
(* after the limiter was also read in between                              *)
C15_Witness ==
    LET A == IsAllowedCalls
    IN /\ OnlyChecksAndReads
       /\ Len(A) > MaxRequests
       /\ A[1].limiter = "sliding"
       /\ A[MaxRequests + 1].at < A[1].at + WindowMs
       /\ A[MaxRequests + 1].at > A[1].at
       /\ ~A[MaxRequests + 1].result.allowed
       /\ Len(calls) > Len(A)

(* in the log, call j is the first isAllowed() after the reset() at k,     *)
(* which came after the denial at i                                        *)
ResetAfterDenial(i, k, j) ==
    /\ i < k /\ k < j
    /\ calls[i].op = "isAllowed" /\ ~calls[i].result.allowed
    /\ calls[k].op = "reset"
    /\ calls[j].op = "isAllowed"
    /\ \A m \in (i + 1)..(j - 1) : calls[m].op # "isAllowed"

(* C16: for either limiter, the first isAllowed() after a reset() that     *)
(* followed a denial is allowed.                                           *)
C16_ResetRestores ==
    \A i, k, j \in 1..Len(calls) :
        ResetAfterDenial(i, k, j) => calls[j].result.allowed

ResetRestored(limiter) ==
    \E i, k, j \in 1..Len(calls) :
        /\ ResetAfterDenial(i, k, j)
        /\ calls[j].limiter = limiter
        /\ calls[j].at = calls[i].at
        /\ calls[j].result.allowed

(* quota used up, denial, reset() and the allowed call all at one instant  *)
C16_Witness == ResetRestored("bucket") \/ ResetRestored("sliding")

---------------------------------------------------------------------------
(* Properties of the service's housekeeping and of the registry client     *)

(* C17: as resetCounter() returns, getRequestCount() is 0 and              *)
(* getLastError() is null, whatever the counter and the error slot were    *)
(* before and whatever call to the service is under way.                   *)
C17_ResetCounterClears ==
    (calls # <<>> /\ LastCall.op = "resetCounter")
        => (LastCall.after.requestCount = 0 /\ LastCall.after.lastError = Null)

(* resetCounter() found lookups counted and an error recorded *)
C17_Witness ==
    /\ calls # <<>>
    /\ LastCall.op = "resetCounter"
    /\ LastCall.before.requestCount > 0
    /\ LastCall.before.lastError # Null
    /\ requestCount = 0
    /\ lastError = Null

(* the status the mapping table gives to a response *)
TableStatus(net) ==
    IF net.kind = "http" /\ net.status = 404 THEN "Available"
    ELSE IF net.kind = "http" /\ net.status = 200 THEN "Taken"
    ELSE "Error"

(* C18: the RDAP lookup returns Available for HTTP 404, Taken for HTTP     *)
(* 200, and Error for every other status, a timeout, a network failure and *)
(* any other exception.                                                    *)
C18_StatusMapping ==
    RdapAt("returned") => LastCall.result.status = TableStatus(LastCall.net)

(* lookup k of frame c was made for this entry of the batch *)
InputOf(c, k) == c.domainsToCheck[c.lookups[k].index + 1]

(* C19: the registry client is called with exactly the lowercased, trimmed *)
(* form of the input; normalizing that form again changes nothing, so the  *)
(* client's own normalization hands the same domain back in its result.    *)
C19_Normalization ==
    \A p \in Callers : \A k \in 1..Len(call[p].lookups) :
        LET l == call[p].lookups[k]
        IN /\ l.domain = Trim(ToLowerCase(InputOf(call[p], k)))
           /\ Trim(ToLowerCase(l.domain)) = l.domain
           /\ l.status # "pending" => call[p].results[l.index + 1].url = l.domain

(* a lookup has returned for an input that was not in normal form *)
C19_Witness ==
    \E p \in Callers : \E k \in 1..Len(call[p].lookups) :
        LET l == call[p].lookups[k]
        IN /\ l.domain # InputOf(call[p], k)
           /\ l.status # "pending"
           /\ call[p].results[l.index + 1].url = l.domain

---------------------------------------------------------------------------
(* Properties of the generation run                                        *)

AllError(nameItem) ==
    WithDomains(nameItem, [j \in 1..Len(nameItem.suggestedDomains) |->
                              ErrorResult(nameItem.suggestedDomains[j])])

RejectedNames ==
    {calls[k].name : k \in {m \in 1..Len(calls) : calls[m].op = "checkDomains"}}

(* C20: a name whose checkDomains call rejected is kept with each of its   *)
(* suggested domains marked Error; the run goes on to the names after it   *)
(* and returns every name, without an error.                               *)
C20_RejectionDoesNotStopRun ==
    run.pc \in {"checking", "done"} =>
        /\ \A i \in RejectedNames :
               /\ i <= Len(run.namesWithDomains)
               /\ run.namesWithDomains[i] = AllError(run.names[i])
        /\ run.pc = "done" /\ RejectedNames # {} =>
               /\ run.out.error = NullMessage
               /\ run.out.results = run.namesWithDomains
               /\ Len(run.out.results) = Len(run.names)
               /\ \A j \in 1..Len(run.names) :
                      /\ run.out.results[j].name = run.names[j].name
                      /\ ~run.limited =>
                             Len(run.out.results[j].domains)
                                 = Len(run.names[j].suggestedDomains)

(* the check of the first name rejected, the second name was then checked  *)
(* against the registry, and both names were returned                      *)
C20_Witness ==
    /\ run.pc = "done"
    /\ RejectedNames = {1}
    /\ Len(run.out.results) = 2
    /\ run.out.results[1] = AllError(run.names[1])
    /\ \E j \in 1..Len(run.out.results[2].domains) :
           run.out.results[2].domains[j].status # "Error"

(* C21: in every generation run resetCounter() is called once, before the  *)
(* call to the language model and so before the first checkDomains call    *)
(* of the run, and it is not called again while the run lasts.             *)
C21_ResetOnceBeforeChecks ==
    /\ run.pc # "idle" => run.resetCounterCalls = 1
    /\ run.pc = "llm" =>
           /\ calls # <<>>
           /\ LastCall.op = "resetCounter"
           /\ call[1] = IdleCall

(* a run that made two checkDomains calls, both of which met the registry, *)
(* has returned                                                            *)
C21_Witness ==
    /\ run.pc = "done"
    /\ run.checkDomains
    /\ run.resetCounterCalls = 1
    /\ Len(run.out.results) = 2
    /\ \A j \in 1..2 : \E d \in 1..Len(run.out.results[j].domains) :
           run.out.results[j].domains[d].status # "Error"

---------------------------------------------------------------------------
(* Properties of the batch: filtering, concurrency, accounting, pacing     *)

CheckedExtensions == {<<".", "c", "o", "m">>, <<".", "m", "y">>, <<".", "a", "i">>}

HasCheckedExtension(domain) ==
    \E ext \in CheckedExtensions : endsWith(Trim(ToLowerCase(domain)), ext)

(* C22: checkDomains looks up only domains whose extension is .com, .my or *)
(* .ai, compared without regard to case, and returns results only for     *)
(* those; an input without such a domain returns the empty sequence and    *)
(* no lookup is made.                                                      *)
C22_OnlyComMyAi ==
    \A p \in Callers :
        LET c == call[p]
        IN c.op = "checkDomains" =>
             /\ \A k \in 1..Len(c.lookups) : HasCheckedExtension(c.lookups[k].domain)
             /\ \A j \in 1..Len(c.results) : HasCheckedExtension(c.results[j].url)
             /\ (\A j \in 1..Len(c.domains) : ~HasCheckedExtension(c.domains[j]))
                    => (c.lookups = <<>> /\ c.results = <<>>)

---------------------------------------------------------------------------
(* Results list (src/features/name-generator/components/results-list.tsx)  *)
(* expanded is the component's state of that name: an object from item     *)
(* keys to booleans, empty when the component mounts.                      *)

targetExtensions == <<  <<".", "c", "o", "m">>, <<".", "m", "y">>, <<".", "a", "i">> >>

getFilteredDomains(domains) ==
    LET Target(domain) ==
            \E k \in 1..Len(targetExtensions) : endsWith(domain.url, targetExtensions[k])
    IN SelectSeq(domains, Target)

(* the results the list is rendered with; the last one has no domain under *)
(* a target extension                                                      *)
Results ==
    << [name |-> <<"a">>, languageOrigin |-> <<"e", "n">>,
        domains |-> << [url |-> <<"a", ".", "c", "o", "m">>, status |-> "Taken"] >>],
       [name |-> <<"b">>, languageOrigin |-> <<"m", "s">>,
        domains |-> << [url |-> <<"b", ".", "m", "y">>, status |-> "Available"],
                       [url |-> <<"b", ".", "i", "o">>, status |-> "Taken"] >>],
       [name |-> <<"c">>, languageOrigin |-> <<"e", "n">>,
        domains |-> << [url |-> <<"c", ".", "a", "i">>, status |-> "Error"] >>],
       [name |-> <<"d">>, languageOrigin |-> <<"e", "n">>,
        domains |-> << [url |-> <<"d", ".", "i", "o">>, status |-> "Taken"] >>] >>

itemKey(item) == item.name \o <<"-">> \o item.languageOrigin

(* the domain section of item, with its header button, is rendered *)
hasSection(item) ==
    /\ Len(item.domains) > 0
    /\ Len(getFilteredDomains(item.domains)) > 0

(* expanded[itemKey] ?? true *)
isExpanded(state, item) ==
    IF itemKey(item) \in DOMAIN state THEN state[itemKey(item)] ELSE TRUE

(* the updater of toggleExpanded: {...prev, [key]: !prev[key]}, where      *)
(* prev[key] is undefined, hence falsy, for a key prev does not have       *)
toggleExpanded(prev, key) ==
    [k \in DOMAIN prev \cup {key} |->
        IF k = key
        THEN ~(IF key \in DOMAIN prev THEN prev[key] ELSE FALSE)
        ELSE prev[k]]

(* calls is the log of the clicks on section headers, by item index *)
Click(n) == [limiter |-> "results-list", op |-> "toggleExpanded", item |-> n]

ClickHeader(n) ==
    /\ hasSection(Results[n])
    /\ Len(calls) < MaxCalls
    /\ expanded' = toggleExpanded(expanded, itemKey(Results[n]))
    /\ calls' = Append(calls, Click(n))
    /\ UNCHANGED <<now, limitersState, admitted, requestCount, lastError, lastFailure,
                   call, run>>

NextResults == \E n \in 1..Len(Results) : ClickHeader(n)

SpecResults == Init /\ [][NextResults]_vars

ClicksOn(n) == Cardinality({k \in 1..Len(calls) : calls[k].item = n})

(* C23: each name's domain section is expanded when the list is first      *)
(* shown and every click on its header toggles it (collapsed after the     *)
(* first click, expanded after the second), clicks on other names' headers *)
(* leaving it as it is: a section is expanded exactly when its header has  *)
(* been clicked an even number of times.                                   *)
C23_ClickToggles ==
    \A n \in 1..Len(Results) :
        hasSection(Results[n]) =>
            (isExpanded(expanded, Results[n]) <=> ClicksOn(n) % 2 = 0)

---------------------------------------------------------------------------
(* Batches with their lookups logged: admitted is here the history of the  *)
(* instants at which a registry lookup was issued, since the last          *)
(* resetCounter() where that is called.  In the concurrent behaviours      *)
(* several clients invoke checkDomains (through the server action of       *)
(* check-domains.ts) and their calls interleave at their await points on   *)
(* the one limiter of the module; in the sequential ones a single caller   *)
(* makes one call after the other.                                         *)

ConcurrentBatches == {Batch(PoolC, len) : len \in 1..Len(PoolC)}
ConcurrentDomains == {PoolC[2]}

(* the outcomes of the logged lookups: one for each status of a result     *)
(* (Available, Taken, Error)                                               *)
NetSample ==
    {net \in ServiceNetOutcomes :
        \/ net.kind = "AbortError"
        \/ net.kind = "http" /\ net.status = 404
        \/ net.kind = "http" /\ net.status = 200 /\ net.body = EmptyObject}

(* With the lookups logged, calls holds the resetCounter() calls made, no  *)
(* more than MaxLoggedResets of them: whether a call stood at an await as  *)
(* resetCounter() was called.                                              *)
ResetLogged == [limiter |-> "service", op |-> "resetCounter", awaiting |-> CallAwaiting]

(* the step of caller p has taken it to the await of a lookup *)
LookupIssued(p) ==
    admitted' = IF call'[p].pc = "lookup" THEN Append(admitted, now') ELSE admitted

CheckDomainsCallLogged(p, domains) ==
    /\ Len(admitted) < MaxCalls
    /\ CheckDomainsEnter(p, domains)
    /\ UNCHANGED calls
    /\ LookupIssued(p)

CheckDomainCallLogged(p, domain) ==
    /\ Len(admitted) < MaxCalls
    /\ CheckDomainEnter(p, domain)
    /\ UNCHANGED calls
    /\ LookupIssued(p)

(* resetCounter() with the lookups logged: the history starts again *)
ResetCounterCallLogged ==
    /\ Len(calls) < MaxLoggedResets
    /\ ResetCounterApply
    /\ calls' = Append(calls, ResetLogged)
    /\ admitted' = <<>>

DelayDoneLogged(p) ==
    /\ DelayResume(p)
    /\ LookupIssued(p)

(* the concurrent callers start their calls while fewer than               *)
(* MaxConcurrentLookups lookups have been issued since the last            *)
(* resetCounter()                                                          *)
ConcurrentCheckDomains(p, domains) ==
    /\ Len(admitted) < MaxConcurrentLookups
    /\ CheckDomainsCallLogged(p, domains)

ConcurrentCheckDomain(p, domain) ==
    /\ Len(admitted) < MaxConcurrentLookups
    /\ CheckDomainCallLogged(p, domain)

(* and call resetCounter() up to MaxConcurrentResets times *)
ConcurrentResetCounter ==
    /\ Len(calls) < MaxConcurrentResets
    /\ ResetCounterCallLogged

NextConcurrent ==
    \/ ServiceTick
    \/ \E p \in Callers : \E d \in ConcurrentBatches : ConcurrentCheckDomains(p, Array(d))
    \/ \E p \in Callers : \E d \in ConcurrentDomains : ConcurrentCheckDomain(p, d)
    \/ \E p \in Callers : LookupFetchResolves(p)
    \/ \E p \in Callers : \E net \in NetSample : LookupReturn(p, net)
    \/ \E p \in Callers : DelayDoneLogged(p)
    \/ \E p \in Callers : CallReturn(p)
    \/ ConcurrentResetCounter
    \/ IsRateLimitReachedCall

SpecConcurrent == Init /\ [][NextConcurrent]_vars

(* the lookups issued in the window that ends with lookup k *)
IssuedInWindow(k) ==
    {j \in 1..Len(admitted) :
        admitted[j] > admitted[k] - WindowMs /\ admitted[j] <= admitted[k]}

(* C24: with checkDomains batches interleaved at their awaits on the       *)
(* shared limiter {maxRequests, windowMs}, no more than maxRequests        *)
(* registry lookups are issued within any interval of windowMs.            *)
C24_NoOverAdmission ==
    \A k \in 1..Len(admitted) : Cardinality(IssuedInWindow(k)) <= MaxRequests

SequentialBatches == {d \in Batches : Len(d) <= 3}

NextSequential ==
    \/ ServiceTick
    \/ \E d \in SequentialBatches : CheckDomainsCallLogged(1, Array(d))
    \/ \E d \in DomainPool : CheckDomainCallLogged(1, d)
    \/ LookupFetchResolves(1)
    \/ \E net \in NetSample : LookupReturn(1, net)
    \/ DelayDoneLogged(1)
    \/ CallReturn(1)
    \/ ResetCounterCallLogged
    \/ IsRateLimitReachedCall

SpecSequential == Init /\ [][NextSequential]_vars

(* the lookups issued since the last resetCounter() that have returned *)
LookupsReturned == Len(admitted) - (IF InLookup(call[1]) THEN 1 ELSE 0)

(* a step in which the pending lookup of the caller returns *)
LookupReturns == InLookup(call[1]) /\ ~InLookup(call'[1])

(* the slots of the limiter before and after a step: a returning lookup    *)
(* takes one slot, at the instant it returns; any other step takes none    *)
OneSlotPerLookup ==
    LET before == TimestampsOf(limitersState, LimiterId)
        after == TimestampsOf(limitersState', LimiterId)
    IN IF LookupReturns
       THEN after = Append(SlidingPrune(before, RateLimiterConfig, now), now)
       ELSE after = before \/ after = <<>>

(* the caller makes its calls one after the other: the last               *)
(* resetCounter() was not called while a call stood at an await            *)
SequentialCalls == calls = <<>> \/ ~calls[Len(calls)].awaiting

(* C25: for a single sequential caller every registry lookup takes exactly *)
(* one slot of the limiter and adds exactly one to getRequestCount(), and  *)
(* a domain settled without a lookup (malformed, or cut off by the         *)
(* fail-fast abort) takes none: getRequestCount() is the number of lookups *)
(* made since the last resetCounter().  The caller is sequential where     *)
(* its resetCounter() did not fall inside a call.                          *)
C25_CountIsLookups ==
    /\ [](SequentialCalls => requestCount = LookupsReturned)
    /\ [][OneSlotPerLookup]_vars

(* since the last resetCounter() a malformed domain has been settled, two  *)
(* lookups have been made and the batch has ended by the fail-fast abort   *)
C25_Witness ==
    /\ Finished(call[1])
    /\ call[1].abortedAt >= 0
    /\ lastError.type = "api_error"
    /\ requestCount = 2
    /\ Len(admitted) = 2

PendingLookups(c) == {k \in 1..Len(c.lookups) : c.lookups[k].status = "pending"}

(* the lookups of a batch are made one at a time *)
OneLookupInFlight ==
    LET c == call[1]
    IN c.op = "checkDomains" =>
         /\ Cardinality(PendingLookups(c)) <= 1
         /\ PendingLookups(c) # {} <=> InLookup(c)
         /\ PendingLookups(c) \subseteq {Len(c.lookups)}

(* a step of a batch: a lookup that returns for a domain other than the    *)
(* last starts the delay, which ends DelayMs later; the loop goes on only  *)
(* when the delay has ended; a lookup that returns for the last domain     *)
(* ends the call there and then                                            *)
Pacing ==
    LET c == call[1]
        last == c.i = Len(c.domainsToCheck) - 1
    IN c.op = "checkDomains" =>
         /\ (LookupReturns /\ ~last) =>
                /\ call'[1].pc = "delay"
                /\ call'[1].wakeAt = now + DelayMs
         /\ (c.pc = "delay" /\ call'[1] # c) =>
                /\ now' >= c.wakeAt
                /\ call'[1].pc = "lookup" => admitted'[Len(admitted')] >= c.wakeAt
         /\ (LookupReturns /\ last) =>
                /\ call'[1].pc = "done"
                /\ now' = now

(* C26: within one checkDomains call the lookups are made strictly one     *)
(* after another, at most one in flight; the fixed delay passes between    *)
(* the return of one lookup and the start of the next; no delay is waited  *)
(* after the last domain of the batch.                                     *)
C26_SequentialPacing ==
    /\ []OneLookupInFlight
    /\ [][Pacing]_vars

(* a batch of two domains has been looked up, the second lookup starting   *)
(* no sooner than DelayMs after the first, and has returned                *)
C26_Witness ==
    /\ Finished(call[1])
    /\ call[1].abortedAt = -1
    /\ Len(call[1].lookups) = 2
    /\ Len(admitted) = 2
    /\ admitted[2] - admitted[1] >= DelayMs

---------------------------------------------------------------------------
(* A client that retries: one limiter of either kind, built with one       *)
(* configuration, called by isAllowed() while Date.now() advances in       *)
(* steps of RetryStepMs milliseconds.                                      *)

RetryStepMs == 1000
RetryCalls == 4
RetryMaxTime == MaxTime * 3000

RetrySlidingId == "retry-sliding"
RetryBucketId == "retry-bucket"
RetrySlidingConfigs == {Config(1, 1500), Config(MaxRequests, 2500)}
RetryBucketConfigs == {Config(1, 11000), Config(MaxRequests, 2500)}

RetryCall(limiter, config, t, result) ==
    [limiter |-> limiter, config |-> config, op |-> "isAllowed", at |-> t,
     result |-> result]

(* the limiter under test is the one its first call was made to *)
Retrying(limiter, config) ==
    /\ Len(calls) < RetryCalls
    /\ calls # <<>> => calls[1].limiter = limiter /\ calls[1].config = config

RetryTick ==
    /\ now < RetryMaxTime
    /\ now' = now + RetryStepMs
    /\ UNCHANGED <<expanded, limitersState, admitted, calls, requestCount, lastError,
                   lastFailure, call, run>>

RetrySlidingIsAllowed(config) ==
    /\ Retrying("sliding", config)
    /\ LET r == SlidingIsAllowed(limitersState, RetrySlidingId, config, now)
       IN /\ limitersState' = r.state
          /\ calls' = Append(calls, RetryCall("sliding", config, now, r.result))
    /\ UNCHANGED <<expanded, now, admitted, requestCount, lastError, lastFailure, call, run>>

RetryBucketIsAllowed(config) ==
    /\ Retrying("bucket", config)
    /\ LET r == TokenIsAllowed(limitersState, RetryBucketId, config, now)
       IN /\ limitersState' = r.state
          /\ calls' = Append(calls, RetryCall("bucket", config, now, r.result))
    /\ UNCHANGED <<expanded, now, admitted, requestCount, lastError, lastFailure, call, run>>

NextRetry ==
    \/ RetryTick
    \/ \E config \in RetrySlidingConfigs : RetrySlidingIsAllowed(config)
    \/ \E config \in RetryBucketConfigs : RetryBucketIsAllowed(config)

SpecRetry == Init /\ [][NextRetry]_vars

(* call j was denied and call j + 1, the next call made to the limiter,    *)
(* came exactly retryAfter seconds after it                                *)
RetriedInTime(j) ==
    /\ j < Len(calls)
    /\ ~calls[j].result.allowed
    /\ calls[j + 1].at = calls[j].at + 1000 * calls[j].result.retryAfter

(* the sliding-window half of C27 *)
SlidingRetryAfterSufficient ==
    \A j \in 1..Len(calls) :
        calls[j].limiter = "sliding" /\ RetriedInTime(j) => calls[j + 1].result.allowed

(* C27: an isAllowed() call made retryAfter seconds after a denial, with   *)
(* no call to the limiter in between, is allowed, for the sliding window   *)
(* and for the token bucket.                                               *)
C27_RetryAfterSufficient ==
    \A j \in 1..Len(calls) : RetriedInTime(j) => calls[j + 1].result.allowed

---------------------------------------------------------------------------
(* Termination of a batch.  The event loop runs the continuation of an     *)
(* await once its promise has settled: the lookup ends by a response, a    *)
(* failure or the abort of its per-request timeout, the timer of the       *)
(* inter-request delay fires, and the caller takes the array of a call     *)
(* that has returned.  The abort covers the fetch only: once the fetch has *)
(* resolved with status 200 the timer is cleared, and that the body then   *)
(* arrives is assumed with the lookup's ending, not brought about by the   *)
(* code.  The first two conditions are weak fairness of LookupEnds and of  *)
(* DelayDoneLogged(1), written out with their enabling conditions:         *)
(* LookupEnds can be taken exactly when the call waits for a lookup (for   *)
(* its fetch or for its body), DelayDoneLogged(1) exactly when it waits    *)
(* for the timer, and each of them changes the frame of the call.          *)

LookupEnds == LookupFetchResolves(1) \/ \E net \in NetSample : LookupReturn(1, net)

LookupEventuallyEnds == []<>(~InLookup(call[1])) \/ []<><<LookupEnds>>_vars

DelayEventuallyEnds == []<>(call[1].pc # "delay") \/ []<><<DelayDoneLogged(1)>>_vars

SpecTermination ==
    /\ SpecSequential
    /\ LookupEventuallyEnds
    /\ DelayEventuallyEnds
    /\ WF_vars(CallReturn(1))

(* the batch of the caller waits at one of its awaits *)
BatchAwaiting ==
    /\ call[1].op = "checkDomains"
    /\ call[1].pc \in {"lookup", "json", "delay"}

(* checkDomains has returned its array, one result for each domain of the  *)
(* batch, having reached the last domain or its fail-fast abort            *)
BatchReturned ==
    /\ Finished(call[1])
    /\ Len(call[1].results) = Len(call[1].domainsToCheck)
    /\ call[1].abortedAt = -1 => call[1].i = Len(call[1].domainsToCheck)

(* C28: a checkDomains call that has started eventually returns its result *)
(* array, given that each lookup eventually ends: the batch reaches its    *)
(* last domain or its fail-fast abort point.                               *)
C28_BatchReturns ==
    /\ BatchAwaiting ~> Finished(call[1])
    /\ [](Finished(call[1]) => BatchReturned)

(* a batch of three domains has returned after a lookup that ended by the  *)
(* abort of its timeout and two delays                                     *)
C28_Witness ==
    /\ BatchReturned
    /\ Len(call[1].domainsToCheck) = 3
    /\ \E k \in 1..Len(call[1].lookups) : call[1].lookups[k].status = "Error"
    /\ now >= 2 * DelayMs

---------------------------------------------------------------------------
(* Properties of processDomainChecks                                       *)

(* generateNamesAction has returned from a run in which the language      *)
(* model gave names and processDomainChecks was called with them           *)
RunChecked == run.pc = "done" /\ run.checkDomains /\ run.names # <<>>

(* one entry for each name, in the order of the names, each with domains *)
OneEntryPerName ==
    /\ run.out.error = NullMessage
    /\ Len(run.out.results) = Len(run.names)
    /\ \A j \in 1..Len(run.names) :
           /\ run.out.results[j].name = run.names[j].name
           /\ run.out.results[j].suggestedDomains = run.names[j].suggestedDomains
           /\ "domains" \in DOMAIN run.out.results[j]
           /\ DOMAIN run.out.results[j].domains
                  \in {1..n : n \in 0..MAX_DOMAINS_PER_BATCH}

(* the names after the one whose check met the limit were not checked *)
LaterNamesUnchecked ==
    \A j \in (run.k + 2)..Len(run.names) : run.out.results[j].domains = <<>>

(* C29: processDomainChecks returns one entry for each input name, in      *)
(* input order, each with a domains array, whether it completes, meets the *)
(* rate limit after some name or has checkDomains reject for a name; once  *)
(* the limit is met every later name gets an empty domains array and no    *)
(* checkDomains call is made any more.                                     *)
C29_OneEntryPerName ==
    /\ run.pc = "checking" => Len(run.namesWithDomains) = run.k
    /\ RunChecked => OneEntryPerName
    /\ run.limited =>
           /\ RunChecked
           /\ call[1] = IdleCall
           /\ LaterNamesUnchecked

(* the checkDomains call of the last name but one returned results and met *)
(* the limit, and the last name was left unchecked                         *)
C29_Witness ==
    /\ RunChecked
    /\ run.limited
    /\ Len(run.names) = MaxNames
    /\ run.k + 2 = MaxNames
    /\ run.out.results[run.k + 1].domains # <<>>
    /\ run.out.results[MaxNames].domains = <<>>

---------------------------------------------------------------------------
(* Properties of ensureRequiredDomains                                     *)

(* the suggested domains of a name are one for each required extension,    *)
(* in the order of the extensions, no domain twice                         *)
OnePerExtension(suggestedDomains) ==
    /\ Len(suggestedDomains) = MAX_DOMAINS_PER_BATCH
    /\ Len(suggestedDomains) = Len(requiredExtensions)
    /\ \A i \in 1..Len(suggestedDomains) :
           endsWith(suggestedDomains[i], requiredExtensions[i])
    /\ \A i, j \in 1..Len(suggestedDomains) :
           i # j => suggestedDomains[i] # suggestedDomains[j]

(* C30: for every generated name and any list of suggested domains,        *)
(* ensureRequiredDomains returns exactly 10 suggested domains, the i-th    *)
(* ending in the i-th required extension, no domain twice.                 *)
C30_OnePerExtension ==
    \A k \in 1..Len(run.names) : OnePerExtension(run.names[k].suggestedDomains)

====
